---- MODULE Spec2Model ----
(***************************************************************************)
(* Access IRC network core: the DCC transfer manager (dcc_manager.py) and  *)
(* the per-channel roster of an IRC connection (irc_manager.py).           *)
(*                                                                         *)
(* Spec        the transfer manager: API calls, receive and send threads   *)
(* LiveSpec    the same, with fairness of the transfer threads             *)
(* RosterSpec  the roster of one IRCConnection under inbound events        *)
(* RenameSpec  the same roster under JOIN, NAMES replies and NICK only       *)
(* MembershipSpec  membership and topic requests of a connected session      *)
(* SessionSpec the session: connect, nickname fallback, LIST, disconnect   *)
(* SplitSpec   outbound message chunking                                   *)
(* RegistrySpec  IRCManager.connections under concurrent callers           *)
(* ReadSpec    roster reads of another thread during inbound dispatch      *)
(* LockSpec    the transfer manager's registry and its lock, by statement  *)
(* OfferSpec   offer parsing, filename sanitizing, collision resolution    *)
(* AnnounceSpec  screen reader announcements of the application (__main__) *)
(* ModeSpec    one privilege change or one mode delta applied to a roster    *)
(* ProgressSpec  the receive loop with the real block size                   *)
(* DownloadSpec  offers parsed one after the other, and their files          *)
(***************************************************************************)
EXTENDS Integers, Sequences, FiniteSets, TLC

\* ------------------------------------------------------------------ bounds
MaxTransfers == 1
MaxSize == 3

\* --------------------------------------------------------------- constants
DCC_BLOCK_SIZE == 8192
ProgressEvery == 10

Ids == 1..MaxTransfers
\* an id that _generate_transfer_id never hands out within the bound
NoSuchId == MaxTransfers + 1
\* sizes a peer can declare in an offer (int() accepts a sign) and sizes
\* os.path.getsize can return for a file to send
OfferSizes == (0 - 1)..MaxSize
FileSizes == 0..MaxSize

Terminal == {"completed", "failed", "cancelled"}
NonTerminal == {"pending", "connecting", "transferring"}

VARIABLES
    next_id,          \* DCCManager._next_id
    transfers,        \* keys of DCCManager.transfers
    listen_sockets,   \* keys of DCCManager._listen_sockets
    transfer,         \* the DCCTransfer objects, by id
    lsock,            \* the listening socket created for a send transfer
    rsock,            \* the socket the receive thread created (its local sock)
    conn,             \* the socket the send thread accepted (its local conn)
    file,             \* the file at transfer.filepath, as the receive thread leaves it:
                      \* "none" untouched, "written" opened with 'wb', "removed"
    rpc,              \* position of the receive thread of a transfer
    spc,              \* position of the send thread of a transfer
    rlocal,           \* receive thread local: chunk_size, then the sum being stored
    slocal,           \* send thread local: chunk_size, len(data), then the sum being stored
    loopback,         \* the receive thread's connection to the transfer's own listening socket
    wire,             \* bytes the send thread sent on that connection, not yet received
    ipc,              \* position of the initiate_send call that made a transfer
    offered,          \* DCC SEND offers passed to send_ctcp_callback, per transfer
    acc,              \* accept_transfer calls past the lock, thread not yet started
    nthreads,         \* threads started for a transfer
    events,           \* callbacks queued with GLib.idle_add, per transfer
    ret,              \* value returned by the last accept / reject / cancel call
    rejected,         \* history: ids reject_transfer succeeded on
    cancel_active,    \* history: receive ids cancel_transfer was called on while
                      \* transferring, the receive thread inside its loop
    nickname,         \* IRCConnection.nickname
    current_channels, \* IRCConnection.current_channels
    channel_users,    \* IRCConnection.channel_users
    raised,           \* the callback an inbound handler queued last with GLib.idle_add
    connected,        \* IRCConnection.connected
    irc,              \* IRCConnection.irc: "none", or the miniirc object with its
                      \* transport "open" or "closed"
    alternate_nicks,  \* IRCConnection.alternate_nicks
    _alternate_nick_index, \* IRCConnection._alternate_nick_index
    quoted,           \* lines handed to irc.quote that were sent
    notified,         \* session callbacks queued by the last session operation
    channel_list,     \* IRCConnection.channel_list (the channel names)
    channel_list_in_progress, \* IRCConnection.channel_list_in_progress
    list_pending,     \* LIST requests sent and not yet answered by end-of-list
    lpc,              \* position of each caller of request_channel_list
    connections,      \* keys of IRCManager.connections
    sret,             \* value the last connect_server or request_channel_list call returned
    call_kind,        \* the call in progress: "split", "message" or "action"
    call_target,      \* target of the send_message / send_action call
    message,          \* message of the call
    max_length,       \* max_length of the _split_message call
    remaining,        \* local remaining of _split_message
    chunks,           \* local chunks of _split_message, then its result
    sent,             \* byte length of each line the call transmitted
    split_pc,         \* position of the call
    registered,       \* IRCManager.connections: the IRCConnection object under each label
    objects,          \* the IRCConnection objects connect_server constructed: "none",
                      \* "connected" (connect() returned True) or "disconnected"
    mpc,              \* position of each caller of connect_server / disconnect_server
    mlocal,           \* its locals server_name and connection
    hpc,              \* position of the inbound handler being dispatched
    hlocal,           \* its locals
    before,           \* history: channel_users when the handler being dispatched began
    snapshot,         \* history of the last get_channel_users call of the reading thread
    transfer_lock,    \* DCCManager._transfer_lock: the thread holding it, or "none"
    tpc,              \* position of each thread inside a DCCManager method
    tlocal,           \* its locals transfer_id and transfer.id
    given,            \* history: the id of every DCCTransfer constructed, in order
    access,           \* history: the last access to transfers or _listen_sockets
    pure_call,        \* the function called last in OfferSpec
    pure_arg,         \* its arguments
    pure_result,      \* its result
    downloads,        \* the receive DCCTransfers constructed, in order
    disk,             \* the paths os.path.exists answers True for
    channel_announcement_overrides, \* AccessIRCWindow.channel_announcement_overrides
    temp_announcement_mode,         \* AccessIRCWindow.temp_announcement_mode
    ui_config,        \* the "ui" section of the configuration
    current_target,   \* AccessIRCWindow.current_server and current_target
    announced         \* what the last operation handed to announce_to_screen_reader

dccrest == <<transfer, lsock, rsock, conn, file, rpc, spc, rlocal, slocal, loopback, wire,
             ipc, offered, acc, nthreads, events, ret, rejected, cancel_active>>
dccvars == <<next_id, transfers, listen_sockets, transfer, lsock, rsock, conn, file, rpc, spc,
             rlocal, slocal, loopback, wire, ipc, offered, acc, nthreads, events, ret, rejected,
             cancel_active>>
rostervars == <<nickname, current_channels, channel_users, raised>>
sessvars == <<connected, irc, alternate_nicks, _alternate_nick_index, quoted, notified,
              channel_list, channel_list_in_progress, list_pending, lpc,
              connections, sret>>
splitvars == <<call_kind, call_target, message, max_length, remaining, chunks, sent, split_pc>>
regvars == <<registered, objects, mpc, mlocal>>
readvars == <<hpc, hlocal, before, snapshot>>
lockvars == <<transfer_lock, tpc, tlocal, given, access>>
downloadvars == <<downloads, disk>>
purevars == <<pure_call, pure_arg, pure_result, downloadvars>>
annvars == <<channel_announcement_overrides, temp_announcement_mode, ui_config,
             current_target, announced>>
extvars == <<regvars, readvars, lockvars, purevars, annvars>>
ircvars == <<rostervars, sessvars, splitvars, extvars>>
vars == <<dccvars, ircvars>>

\* ---------------------------------------------------------------- helpers
Min(a, b) == IF a < b THEN a ELSE b

\* a DCCTransfer as the dataclass constructs it; sock is "null" or names the
\* socket it references: "sock" (the receive thread's) or "conn" (the send thread's)
DCCTransfer(dir, size) ==
    [direction |-> dir, state |-> "pending", bytes_transferred |-> 0,
     filesize |-> size, sock |-> "null", thread |-> FALSE,
     cancelled |-> FALSE, error_message |-> ""]

NoTransfer == DCCTransfer("none", 0)

\* ids of the incoming offers
Incoming == {id \in Ids : transfer[id].direction = "receive"}

\* ids the caller of the manager has been handed
Known == {id \in Ids : transfer[id].direction = "receive" \/ ipc[id] = "returned"}

chunk_size(t) == Min(DCC_BLOCK_SIZE, t.filesize - t.bytes_transferred)

progress_due(b) == b % (DCC_BLOCK_SIZE * ProgressEvery) = 0

Raise(id, kind) == [events EXCEPT ![id][kind] = @ + 1]

Fail(id, msg) ==
    /\ transfer' = [transfer EXCEPT ![id].state = "failed", ![id].error_message = msg]
    /\ events' = Raise(id, "failed")

\* sock.close() on whatever socket transfer.sock references
CloseOwned(t, socks, which) ==
    IF t.sock = which /\ socks # "none" THEN "closed" ELSE socks

\* ------------------------------------------------------ transfer manager API

\* parse_dcc_ctcp on a well-formed DCC SEND offer declaring `size`
parse_dcc_ctcp(size) ==
    /\ next_id <= MaxTransfers
    /\ next_id' = next_id + 1
    /\ transfer' = [transfer EXCEPT ![next_id] = DCCTransfer("receive", size)]
    /\ transfers' = transfers \cup {next_id}
    /\ UNCHANGED <<loopback, wire, rlocal, slocal, listen_sockets, lsock, rsock, conn, file, rpc, spc, ipc, acc,
                   nthreads, events, ret, rejected, cancel_active>>
    /\ UNCHANGED <<ircvars, offered>>

\* initiate_send up to the registration of the new transfer
initiate_send_register(size) ==
    /\ next_id <= MaxTransfers
    /\ next_id' = next_id + 1
    /\ transfer' = [transfer EXCEPT ![next_id] = DCCTransfer("send", size)]
    /\ transfers' = transfers \cup {next_id}
    /\ ipc' = [ipc EXCEPT ![next_id] = "bind"]
    /\ UNCHANGED <<loopback, wire, rlocal, slocal, listen_sockets, lsock, rsock, conn, file, rpc, spc, acc,
                   nthreads, events, ret, rejected, cancel_active>>
    /\ UNCHANGED <<ircvars, offered>>

\* initiate_send starting the thread where it advertises the offer
initiate_send_offer_started(id) ==
    /\ ipc[id] = "offer"
    /\ transfer' = [transfer EXCEPT ![id].thread = TRUE]
    /\ nthreads' = [nthreads EXCEPT ![id] = @ + 1]
    /\ spc' = [spc EXCEPT ![id] = "start"]
    /\ ipc' = [ipc EXCEPT ![id] = "thread"]
    /\ UNCHANGED <<loopback, wire, rlocal, slocal, next_id, transfers, listen_sockets, lsock, rsock,
                   conn, file, rpc, acc, events, ret, rejected, cancel_active>>
    /\ UNCHANGED <<ircvars, offered>>

\* initiate_send: bind and listen succeed, the socket is stored in
\* _listen_sockets
initiate_send_listen(id) ==
    /\ ipc[id] = "bind"
    /\ lsock' = [lsock EXCEPT ![id] = "open"]
    /\ listen_sockets' = listen_sockets \cup {id}
    /\ ipc' = [ipc EXCEPT ![id] = "offer"]
    /\ UNCHANGED <<loopback, wire, rlocal, slocal, next_id, transfers, transfer, rsock, conn, file,
                   rpc, spc, acc, nthreads, events, ret, rejected, cancel_active>>
    /\ UNCHANGED <<ircvars, offered>>

\* initiate_send: send_ctcp_callback(server, nick, ctcp_msg)
initiate_send_offer(id) ==
    /\ ipc[id] = "offer"
    /\ offered' = [offered EXCEPT ![id] = @ + 1]
    /\ ipc' = [ipc EXCEPT ![id] = "thread"]
    /\ UNCHANGED <<loopback, wire, rlocal, slocal, next_id, transfers, listen_sockets, transfer,
                   lsock, rsock, conn, file, rpc, spc, acc, nthreads, events, ret, rejected,
                   cancel_active>>
    /\ UNCHANGED ircvars

\* initiate_send: the send thread is started and the id returned
initiate_send_start_thread(id) ==
    /\ ipc[id] = "thread"
    /\ transfer' = [transfer EXCEPT ![id].thread = TRUE]
    /\ nthreads' = [nthreads EXCEPT ![id] = @ + 1]
    /\ spc' = [spc EXCEPT ![id] = "start"]
    /\ ipc' = [ipc EXCEPT ![id] = "returned"]
    /\ UNCHANGED <<loopback, wire, rlocal, slocal, next_id, transfers, listen_sockets, lsock, rsock,
                   conn, file, rpc, acc, events, ret, rejected, cancel_active>>
    /\ UNCHANGED <<ircvars, offered>>

\* initiate_send: bind or listen raises
initiate_send_bind_failed(id) ==
    /\ ipc[id] = "bind"
    /\ transfer' = [transfer EXCEPT ![id].state = "failed",
                                    ![id].error_message = "Failed to bind port"]
    /\ ipc' = [ipc EXCEPT ![id] = "failed"]
    /\ UNCHANGED <<loopback, wire, rlocal, slocal, next_id, transfers, listen_sockets, lsock, rsock, conn, file, rpc,
                   spc, acc, nthreads, events, ret, rejected, cancel_active>>
    /\ UNCHANGED <<ircvars, offered>>

\* accept_transfer: the part under the lock
accept_transfer(id) ==
    /\ IF id \in transfers /\ transfer[id].state = "pending"
       THEN /\ transfer' = [transfer EXCEPT ![id].state = "connecting"]
            /\ acc' = [acc EXCEPT ![id] = @ + 1]
            /\ ret' = TRUE
       ELSE /\ ret' = FALSE
            /\ UNCHANGED <<transfer, acc>>
    /\ UNCHANGED <<loopback, wire, rlocal, slocal, next_id, transfers, listen_sockets, lsock, rsock, conn, file, rpc,
                   spc, ipc, nthreads, events, rejected, cancel_active>>
    /\ UNCHANGED <<ircvars, offered>>

\* accept_transfer: after the lock, the receive thread is created and started
accept_start_thread(id) ==
    /\ acc[id] > 0
    /\ acc' = [acc EXCEPT ![id] = @ - 1]
    /\ transfer' = [transfer EXCEPT ![id].thread = TRUE]
    /\ nthreads' = [nthreads EXCEPT ![id] = @ + 1]
    /\ rpc' = [rpc EXCEPT ![id] = "start"]
    /\ UNCHANGED <<loopback, wire, rlocal, slocal, next_id, transfers, listen_sockets, lsock, rsock, conn, file, spc,
                   ipc, events, ret, rejected, cancel_active>>
    /\ UNCHANGED <<ircvars, offered>>

\* reject_transfer without del self.transfers[transfer_id]
reject_transfer_keep(id) ==
    /\ IF id \in transfers /\ transfer[id].state = "pending"
       THEN /\ transfer' = [transfer EXCEPT ![id].state = "cancelled"]
            /\ rejected' = rejected \cup {id}
            /\ ret' = TRUE
       ELSE /\ ret' = FALSE
            /\ UNCHANGED <<transfer, rejected>>
    /\ UNCHANGED <<loopback, wire, rlocal, slocal, next_id, transfers, listen_sockets, lsock, rsock, conn, file, rpc,
                   spc, ipc, acc, nthreads, events, cancel_active>>
    /\ UNCHANGED <<ircvars, offered>>

\* reject_transfer: test, write and deletion under the lock
reject_transfer(id) ==
    /\ IF id \in transfers /\ transfer[id].state = "pending"
       THEN /\ transfer' = [transfer EXCEPT ![id].state = "cancelled"]
            /\ transfers' = transfers \ {id}
            /\ rejected' = rejected \cup {id}
            /\ ret' = TRUE
       ELSE /\ ret' = FALSE
            /\ UNCHANGED <<transfer, transfers, rejected>>
    /\ UNCHANGED <<loopback, wire, rlocal, slocal, next_id, listen_sockets, lsock, rsock, conn, file, rpc, spc, ipc,
                   acc, nthreads, events, cancel_active>>
    /\ UNCHANGED <<ircvars, offered>>

cancel_transfer(id) ==
    /\ IF id \in transfers
       THEN /\ transfer' = [transfer EXCEPT ![id].cancelled = TRUE,
                                            ![id].state = "cancelled"]
            /\ rsock' = [rsock EXCEPT ![id] = CloseOwned(transfer[id], @, "sock")]
            /\ conn' = [conn EXCEPT ![id] = CloseOwned(transfer[id], @, "conn")]
            /\ cancel_active' =
                   IF transfer[id].direction = "receive"
                      /\ transfer[id].state = "transferring"
                      /\ rpc[id] \in {"loop", "recv", "store", "ack"}
                   THEN cancel_active \cup {id} ELSE cancel_active
            /\ ret' = TRUE
       ELSE /\ ret' = FALSE
            /\ UNCHANGED <<transfer, rsock, conn, cancel_active>>
    /\ UNCHANGED <<loopback, wire, rlocal, slocal, next_id, transfers, listen_sockets, lsock, file, rpc, spc, ipc,
                   acc, nthreads, events, rejected>>
    /\ UNCHANGED <<ircvars, offered>>

cleanup ==
    /\ transfers # {} \/ listen_sockets # {}
    /\ transfer' = [id \in Ids |->
                       IF id \in transfers
                       THEN [transfer[id] EXCEPT !.cancelled = TRUE]
                       ELSE transfer[id]]
    /\ rsock' = [id \in Ids |->
                    IF id \in transfers
                    THEN CloseOwned(transfer[id], rsock[id], "sock") ELSE rsock[id]]
    /\ conn' = [id \in Ids |->
                   IF id \in transfers
                   THEN CloseOwned(transfer[id], conn[id], "conn") ELSE conn[id]]
    /\ lsock' = [id \in Ids |-> IF id \in listen_sockets THEN "closed" ELSE lsock[id]]
    /\ loopback' = [id \in Ids |->
                       IF id \in listen_sockets /\ loopback[id] = "queued"
                       THEN "reset" ELSE loopback[id]]
    /\ transfers' = {}
    /\ listen_sockets' = {}
    /\ UNCHANGED <<wire, rlocal, slocal, next_id, file, rpc, spc, ipc, acc, nthreads, events, ret,
                   rejected, cancel_active>>
    /\ UNCHANGED <<ircvars, offered>>

\* ------------------------------------------------- _receive_file_thread steps

\* the lookup under the lock
receive_lookup(id) ==
    /\ rpc[id] = "start"
    /\ rpc' = [rpc EXCEPT ![id] = IF id \in transfers THEN "connect" ELSE "done"]
    /\ UNCHANGED <<loopback, wire, rlocal, slocal, next_id, transfers, listen_sockets, transfer, lsock, rsock, conn,
                   file, spc, ipc, acc, nthreads, events, ret, rejected, cancel_active>>
    /\ UNCHANGED <<ircvars, offered>>

\* socket(), settimeout(), connect() succeed. transfer.ip and transfer.port of
\* a send transfer are the address of its own listening socket, whose backlog
\* then holds the connection
receive_connected(id) ==
    /\ rpc[id] = "connect"
    /\ transfer[id].direction = "send" => lsock[id] = "open"
    /\ loopback' = IF transfer[id].direction = "send"
                   THEN [loopback EXCEPT ![id] = "queued"] ELSE loopback
    /\ rsock' = [rsock EXCEPT ![id] = "open"]
    /\ transfer' = [transfer EXCEPT ![id].sock = "sock", ![id].state = "transferring"]
    /\ rpc' = [rpc EXCEPT ![id] = "open"]
    /\ UNCHANGED <<wire, rlocal, slocal, next_id, transfers, listen_sockets, lsock, conn, file, spc, ipc,
                   acc, nthreads, events, ret, rejected, cancel_active>>
    /\ UNCHANGED <<ircvars, offered>>

\* connect() raises: timeout after DCC_TIMEOUT, refusal, or another OSError
receive_connect_failed(id) ==
    /\ rpc[id] = "connect"
    /\ \E msg \in {"Connection timed out", "Connection refused", "oserror"} :
           Fail(id, msg)
    /\ rpc' = [rpc EXCEPT ![id] = "done"]
    /\ UNCHANGED <<loopback, wire, rlocal, slocal, next_id, transfers, listen_sockets, lsock, rsock, conn, file, spc,
                   ipc, acc, nthreads, ret, rejected, cancel_active>>
    /\ UNCHANGED <<ircvars, offered>>

\* makedirs and open(filepath, 'wb') succeed
receive_open(id) ==
    /\ rpc[id] = "open"
    /\ file' = [file EXCEPT ![id] = "written"]
    /\ rpc' = [rpc EXCEPT ![id] = "loop"]
    /\ UNCHANGED <<loopback, wire, rlocal, slocal, next_id, transfers, listen_sockets, transfer, lsock, rsock, conn,
                   spc, ipc, acc, nthreads, events, ret, rejected, cancel_active>>
    /\ UNCHANGED <<ircvars, offered>>

\* makedirs or open raises
receive_open_failed(id) ==
    /\ rpc[id] = "open"
    /\ Fail(id, "oserror")
    /\ rpc' = [rpc EXCEPT ![id] = "done"]
    /\ UNCHANGED <<loopback, wire, rlocal, slocal, next_id, transfers, listen_sockets, lsock, rsock, conn, file, spc,
                   ipc, acc, nthreads, ret, rejected, cancel_active>>
    /\ UNCHANGED <<ircvars, offered>>

\* the while test and chunk_size; when the test fails: sock.close(),
\* transfer.sock = None
receive_loop(id) ==
    /\ rpc[id] = "loop"
    /\ IF transfer[id].bytes_transferred < transfer[id].filesize
          /\ ~transfer[id].cancelled
       THEN /\ rpc' = [rpc EXCEPT ![id] = "recv"]
            /\ rlocal' = [rlocal EXCEPT ![id] = chunk_size(transfer[id])]
            /\ UNCHANGED <<transfer, rsock>>
       ELSE /\ rpc' = [rpc EXCEPT ![id] = "final"]
            /\ rsock' = [rsock EXCEPT ![id] = "closed"]
            /\ transfer' = [transfer EXCEPT ![id].sock = "null"]
            /\ UNCHANGED rlocal
    /\ UNCHANGED <<loopback, wire, slocal, next_id, transfers, listen_sockets, lsock, conn, file, spc,
                   ipc, acc, nthreads, events, ret, rejected, cancel_active>>
    /\ UNCHANGED <<ircvars, offered>>

\* recv returns n bytes, which are written; bytes_transferred is read and
\* len(data) added to it. The bytes come from the peer, or from the
\* transfer's own send thread
receive_block(id) ==
    /\ rpc[id] = "recv"
    /\ rsock[id] = "open"
    /\ IF transfer[id].direction = "send"
       THEN /\ loopback[id] = "accepted"
            /\ \E n \in 1..Min(rlocal[id], wire[id]) :
                   /\ rlocal' = [rlocal EXCEPT
                                    ![id] = transfer[id].bytes_transferred + n]
                   /\ wire' = [wire EXCEPT ![id] = @ - n]
       ELSE /\ \E n \in 1..rlocal[id] :
                   rlocal' = [rlocal EXCEPT
                                 ![id] = transfer[id].bytes_transferred + n]
            /\ UNCHANGED wire
    /\ rpc' = [rpc EXCEPT ![id] = "store"]
    /\ UNCHANGED <<loopback, slocal, next_id, transfers, listen_sockets, transfer, lsock, rsock,
                   conn, file, spc, ipc, acc, nthreads, events, ret, rejected,
                   cancel_active>>
    /\ UNCHANGED <<ircvars, offered>>

\* the sum is stored in transfer.bytes_transferred
receive_store(id) ==
    /\ rpc[id] = "store"
    /\ transfer' = [transfer EXCEPT ![id].bytes_transferred = rlocal[id]]
    /\ rlocal' = [rlocal EXCEPT ![id] = 0]
    /\ rpc' = [rpc EXCEPT ![id] = "ack"]
    /\ UNCHANGED <<loopback, wire, slocal, next_id, transfers, listen_sockets, lsock, rsock, conn, file,
                   spc, ipc, acc, nthreads, events, ret, rejected, cancel_active>>
    /\ UNCHANGED <<ircvars, offered>>

\* recv returns no data (the peer closed): break, sock.close(), transfer.sock = None
receive_eof(id) ==
    /\ rpc[id] = "recv"
    /\ rsock[id] = "open"
    /\ transfer[id].direction = "send" =>
           loopback[id] = "accepted" /\ conn[id] = "closed" /\ wire[id] = 0
    /\ rpc' = [rpc EXCEPT ![id] = "final"]
    /\ rlocal' = [rlocal EXCEPT ![id] = 0]
    /\ rsock' = [rsock EXCEPT ![id] = "closed"]
    /\ transfer' = [transfer EXCEPT ![id].sock = "null"]
    /\ UNCHANGED <<loopback, wire, slocal, next_id, transfers, listen_sockets, lsock, conn, file, spc,
                   ipc, acc, nthreads, events, ret, rejected, cancel_active>>
    /\ UNCHANGED <<ircvars, offered>>

\* recv raises: socket.timeout after DCC_TIMEOUT without data, or an OSError
\* (reset by the peer; a socket closed under the thread by cancel or cleanup
\* ends either way, depending on where the thread was)
receive_recv_failed(id) ==
    /\ rpc[id] = "recv"
    /\ \E msg \in {"Connection timed out", "oserror"} : Fail(id, msg)
    /\ rpc' = [rpc EXCEPT ![id] = "done"]
    /\ rlocal' = [rlocal EXCEPT ![id] = 0]
    /\ UNCHANGED <<loopback, wire, slocal, next_id, transfers, listen_sockets, lsock, rsock, conn, file,
                   spc, ipc, acc, nthreads, ret, rejected, cancel_active>>
    /\ UNCHANGED <<ircvars, offered>>

\* the 4-byte acknowledgement is sent; progress callback when due
receive_ack(id) ==
    /\ rpc[id] = "ack"
    /\ rsock[id] = "open"
    /\ events' = IF progress_due(transfer[id].bytes_transferred)
                 THEN Raise(id, "progress") ELSE events
    /\ rpc' = [rpc EXCEPT ![id] = "loop"]
    /\ UNCHANGED <<loopback, wire, rlocal, slocal, next_id, transfers, listen_sockets, transfer, lsock, rsock, conn,
                   file, spc, ipc, acc, nthreads, ret, rejected, cancel_active>>
    /\ UNCHANGED <<ircvars, offered>>

\* sock.send(ack) raises (closed socket, reset, timeout)
receive_ack_failed(id) ==
    /\ rpc[id] = "ack"
    /\ \E msg \in {"Connection timed out", "oserror"} :
           /\ rsock[id] = "closed" => msg = "oserror"
           /\ Fail(id, msg)
    /\ rpc' = [rpc EXCEPT ![id] = "done"]
    /\ UNCHANGED <<loopback, wire, rlocal, slocal, next_id, transfers, listen_sockets, lsock, rsock, conn, file, spc,
                   ipc, acc, nthreads, ret, rejected, cancel_active>>
    /\ UNCHANGED <<ircvars, offered>>

\* after the loop: the terminal state is decided
receive_final(id) ==
    /\ rpc[id] = "final"
    /\ rpc' = [rpc EXCEPT ![id] = "done"]
    /\ IF transfer[id].cancelled
       THEN /\ transfer' = [transfer EXCEPT ![id].state = "cancelled"]
            /\ file' = [file EXCEPT ![id] = "removed"]
            /\ UNCHANGED events
       ELSE IF transfer[id].bytes_transferred >= transfer[id].filesize
       THEN /\ transfer' = [transfer EXCEPT ![id].state = "completed"]
            /\ events' = Raise(id, "complete")
            /\ UNCHANGED file
       ELSE /\ Fail(id, "Transfer incomplete")
            /\ UNCHANGED file
    /\ UNCHANGED <<loopback, wire, rlocal, slocal, next_id, transfers, listen_sockets, lsock, rsock, conn, spc, ipc,
                   acc, nthreads, ret, rejected, cancel_active>>
    /\ UNCHANGED <<ircvars, offered>>

\* ---------------------------------------------------- _send_file_thread steps

\* the lookup under the lock
send_lookup(id) ==
    /\ spc[id] = "start"
    /\ spc' = [spc EXCEPT ![id] =
                  IF id \in transfers /\ id \in listen_sockets THEN "set" ELSE "done"]
    /\ UNCHANGED <<loopback, wire, rlocal, slocal, next_id, transfers, listen_sockets, transfer, lsock, rsock, conn,
                   file, rpc, ipc, acc, nthreads, events, ret, rejected, cancel_active>>
    /\ UNCHANGED <<ircvars, offered>>

\* transfer.state = CONNECTING
send_connecting(id) ==
    /\ spc[id] = "set"
    /\ transfer' = [transfer EXCEPT ![id].state = "connecting"]
    /\ spc' = [spc EXCEPT ![id] = "accept"]
    /\ UNCHANGED <<loopback, wire, rlocal, slocal, next_id, transfers, listen_sockets, lsock, rsock, conn, file, rpc,
                   ipc, acc, nthreads, events, ret, rejected, cancel_active>>
    /\ UNCHANGED <<ircvars, offered>>

\* listen_sock.accept() returns a connection (a blocking socket without
\* timeout): the peer's, or the one a receive thread of this transfer made;
\* listen_sock.close() resets a connection left in the backlog
send_accepted(id) ==
    /\ spc[id] = "accept"
    /\ lsock[id] = "open"
    /\ conn' = [conn EXCEPT ![id] = "open"]
    /\ lsock' = [lsock EXCEPT ![id] = "closed"]
    /\ \E mine \in BOOLEAN :
           loopback' = IF loopback[id] = "queued"
                       THEN [loopback EXCEPT ![id] = IF mine THEN "accepted" ELSE "reset"]
                       ELSE loopback
    /\ spc' = [spc EXCEPT ![id] = "del"]
    /\ UNCHANGED <<wire, rlocal, slocal, next_id, transfers, listen_sockets, transfer, rsock, file, rpc,
                   ipc, acc, nthreads, events, ret, rejected, cancel_active>>
    /\ UNCHANGED <<ircvars, offered>>

\* accept() raises: socket.timeout after DCC_TIMEOUT without a connection, or
\* an OSError on a listening socket that cleanup closed
send_accept_failed(id) ==
    /\ spc[id] = "accept"
    /\ \E msg \in {"Connection timed out (no incoming connection)", "oserror"} :
           /\ lsock[id] = "open" => msg # "oserror"
           /\ Fail(id, msg)
    /\ spc' = [spc EXCEPT ![id] = "done"]
    /\ UNCHANGED <<loopback, wire, rlocal, slocal, next_id, transfers, listen_sockets, lsock, rsock, conn, file, rpc,
                   ipc, acc, nthreads, ret, rejected, cancel_active>>
    /\ UNCHANGED <<ircvars, offered>>

\* del self._listen_sockets[id] (KeyError once cleanup emptied the map), then
\* transfer.sock = conn, state = TRANSFERRING, open(filepath, 'rb')
send_start(id) ==
    /\ spc[id] = "del"
    /\ IF id \in listen_sockets
       THEN /\ listen_sockets' = listen_sockets \ {id}
            /\ transfer' = [transfer EXCEPT ![id].sock = "conn",
                                            ![id].state = "transferring"]
            /\ spc' = [spc EXCEPT ![id] = "loop"]
            /\ UNCHANGED events
       ELSE /\ Fail(id, "oserror")
            /\ spc' = [spc EXCEPT ![id] = "done"]
            /\ UNCHANGED listen_sockets
    /\ UNCHANGED <<loopback, wire, rlocal, slocal, next_id, transfers, lsock, rsock, conn, file, rpc, ipc, acc,
                   nthreads, ret, rejected, cancel_active>>
    /\ UNCHANGED <<ircvars, offered>>

\* the while test and chunk_size; when the test fails: conn.close(),
\* transfer.sock = None
send_loop(id) ==
    /\ spc[id] = "loop"
    /\ IF transfer[id].bytes_transferred < transfer[id].filesize
          /\ ~transfer[id].cancelled
       THEN /\ spc' = [spc EXCEPT ![id] = "send"]
            /\ slocal' = [slocal EXCEPT ![id] = chunk_size(transfer[id])]
            /\ UNCHANGED <<transfer, conn>>
       ELSE /\ spc' = [spc EXCEPT ![id] = "final"]
            /\ conn' = [conn EXCEPT ![id] = "closed"]
            /\ transfer' = [transfer EXCEPT ![id].sock = "null"]
            /\ UNCHANGED slocal
    /\ UNCHANGED <<loopback, wire, rlocal, next_id, transfers, listen_sockets, lsock, rsock, file, rpc,
                   ipc, acc, nthreads, events, ret, rejected, cancel_active>>
    /\ UNCHANGED <<ircvars, offered>>

\* f.read returns n bytes of data. Once a receive thread of this transfer has
\* opened transfer.filepath with 'wb', the file holds nothing past the
\* position of f
send_read(id) ==
    /\ spc[id] = "send"
    /\ file[id] = "none"
    /\ \E n \in 1..slocal[id] : slocal' = [slocal EXCEPT ![id] = n]
    /\ spc' = [spc EXCEPT ![id] = "write"]
    /\ UNCHANGED <<loopback, wire, rlocal, next_id, transfers, listen_sockets, transfer, lsock, rsock,
                   conn, file, rpc, ipc, acc, nthreads, events, ret, rejected,
                   cancel_active>>
    /\ UNCHANGED <<ircvars, offered>>

\* f.read returns no data (the file is shorter than its size at initiate_send):
\* break, conn.close(), transfer.sock = None
send_eof(id) ==
    /\ spc[id] = "send"
    /\ spc' = [spc EXCEPT ![id] = "final"]
    /\ slocal' = [slocal EXCEPT ![id] = 0]
    /\ conn' = [conn EXCEPT ![id] = "closed"]
    /\ transfer' = [transfer EXCEPT ![id].sock = "null"]
    /\ UNCHANGED <<loopback, wire, rlocal, next_id, transfers, listen_sockets, lsock, rsock, file, rpc,
                   ipc, acc, nthreads, events, ret, rejected, cancel_active>>
    /\ UNCHANGED <<ircvars, offered>>

\* conn.send returns; bytes_transferred is read and len(data) added to it.
\* conn has no timeout: while the peer does not read, send blocks
send_block(id) ==
    /\ spc[id] = "write"
    /\ conn[id] = "open"
    /\ wire' = IF loopback[id] = "accepted"
               THEN [wire EXCEPT ![id] = @ + slocal[id]] ELSE wire
    /\ slocal' = [slocal EXCEPT ![id] = transfer[id].bytes_transferred + @]
    /\ spc' = [spc EXCEPT ![id] = "store"]
    /\ UNCHANGED <<loopback, rlocal, next_id, transfers, listen_sockets, transfer, lsock, rsock,
                   conn, file, rpc, ipc, acc, nthreads, events, ret, rejected,
                   cancel_active>>
    /\ UNCHANGED <<ircvars, offered>>

\* conn.send raises: the peer reset the connection, or the socket was closed
send_block_failed(id) ==
    /\ spc[id] = "write"
    /\ conn[id] \in {"open", "closed"}
    /\ Fail(id, "oserror")
    /\ spc' = [spc EXCEPT ![id] = "done"]
    /\ slocal' = [slocal EXCEPT ![id] = 0]
    /\ UNCHANGED <<loopback, wire, rlocal, next_id, transfers, listen_sockets, lsock, rsock, conn, file,
                   rpc, ipc, acc, nthreads, ret, rejected, cancel_active>>
    /\ UNCHANGED <<ircvars, offered>>

\* the sum is stored in transfer.bytes_transferred
send_store(id) ==
    /\ spc[id] = "store"
    /\ transfer' = [transfer EXCEPT ![id].bytes_transferred = slocal[id]]
    /\ slocal' = [slocal EXCEPT ![id] = 0]
    /\ spc' = [spc EXCEPT ![id] = "progress"]
    /\ UNCHANGED <<loopback, wire, rlocal, next_id, transfers, listen_sockets, lsock, rsock, conn, file,
                   rpc, ipc, acc, nthreads, events, ret, rejected, cancel_active>>
    /\ UNCHANGED <<ircvars, offered>>

\* progress callback when due
send_progress(id) ==
    /\ spc[id] = "progress"
    /\ events' = IF progress_due(transfer[id].bytes_transferred)
                 THEN Raise(id, "progress") ELSE events
    /\ spc' = [spc EXCEPT ![id] = "loop"]
    /\ UNCHANGED <<loopback, wire, rlocal, slocal, next_id, transfers, listen_sockets, transfer, lsock,
                   rsock, conn, file, rpc, ipc, acc, nthreads, ret, rejected,
                   cancel_active>>
    /\ UNCHANGED <<ircvars, offered>>

\* after the loop: the terminal state is decided
send_final(id) ==
    /\ spc[id] = "final"
    /\ spc' = [spc EXCEPT ![id] = "done"]
    /\ IF transfer[id].cancelled
       THEN /\ transfer' = [transfer EXCEPT ![id].state = "cancelled"]
            /\ UNCHANGED events
       ELSE IF transfer[id].bytes_transferred >= transfer[id].filesize
       THEN /\ transfer' = [transfer EXCEPT ![id].state = "completed"]
            /\ events' = Raise(id, "complete")
       ELSE Fail(id, "Transfer incomplete")
    /\ UNCHANGED <<loopback, wire, rlocal, slocal, next_id, transfers, listen_sockets, lsock, rsock, conn, file, rpc,
                   ipc, acc, nthreads, ret, rejected, cancel_active>>
    /\ UNCHANGED <<ircvars, offered>>

\* ------------------------------------------------------------------ the peer

\* the receiving peer stops reading: its window fills and conn.send blocks
peer_stalls(id) ==
    /\ conn[id] = "open"
    /\ loopback[id] # "accepted"
    /\ spc[id] \in {"loop", "send", "write", "store", "progress"}
    /\ conn' = [conn EXCEPT ![id] = "stalled"]
    /\ UNCHANGED <<loopback, wire, rlocal, slocal, next_id, transfers, listen_sockets, transfer, lsock, rsock, file,
                   rpc, spc, ipc, acc, nthreads, events, ret, rejected, cancel_active>>
    /\ UNCHANGED <<ircvars, offered>>

\* --------------------------------------------------------------- the machine

DccInit ==
    /\ next_id = 1
    /\ transfers = {}
    /\ listen_sockets = {}
    /\ transfer = [id \in Ids |-> NoTransfer]
    /\ lsock = [id \in Ids |-> "none"]
    /\ rsock = [id \in Ids |-> "none"]
    /\ conn = [id \in Ids |-> "none"]
    /\ file = [id \in Ids |-> "none"]
    /\ rpc = [id \in Ids |-> "none"]
    /\ spc = [id \in Ids |-> "none"]
    /\ rlocal = [id \in Ids |-> 0]
    /\ loopback = [id \in Ids |-> "none"]
    /\ wire = [id \in Ids |-> 0]
    /\ slocal = [id \in Ids |-> 0]
    /\ ipc = [id \in Ids |-> "none"]
    /\ offered = [id \in Ids |-> 0]
    /\ acc = [id \in Ids |-> 0]
    /\ nthreads = [id \in Ids |-> 0]
    /\ events = [id \in Ids |-> [complete |-> 0, failed |-> 0, progress |-> 0]]
    /\ ret = FALSE
    /\ rejected = {}
    /\ cancel_active = {}

\* threads that call request_channel_list
Callers == {"t1", "t2"}

\* no _split_message, send_message or send_action call was made yet
SplitIdle ==
    /\ call_kind = "none"
    /\ call_target = <<>>
    /\ message = <<>>
    /\ max_length = 0
    /\ remaining = <<>>
    /\ chunks = <<>>
    /\ sent = <<>>
    /\ split_pc = "idle"

NoEvent == [affected |-> {}, seen |-> <<>>]

IrcInit ==
    /\ nickname = <<"m">>
    /\ current_channels = <<>>
    /\ channel_users = [c \in {} |-> {}]
    /\ raised = NoEvent
    /\ connected = FALSE
    /\ irc = "none"
    /\ alternate_nicks = <<>>
    /\ _alternate_nick_index = 0
    /\ quoted = <<>>
    /\ notified = <<>>
    /\ channel_list = <<>>
    /\ channel_list_in_progress = FALSE
    /\ list_pending = 0
    /\ lpc = [t \in Callers |-> "idle"]
    /\ connections = {}
    /\ sret = "none"
    /\ SplitIdle

\* threads that call into one DCCManager: two callers of its API and the
\* send thread each of them starts
ApiThreads == {"t1", "t2"}
SendThreads == {"s1", "s2"}
DccThreads == ApiThreads \cup SendThreads

NoLocals == [server_name |-> "", connection |-> 0, ret |-> "none"]
NoSnapshot == [channel |-> <<>>, during |-> FALSE, whole |-> TRUE]
NoAccess == [map |-> "none", by |-> "none", locked |-> TRUE]
NoCall == [fn |-> "none"]
Silent == [op |-> "none", server |-> "", channel |-> "", said |-> FALSE]

\* IRCManager.__init__, and no call in progress
RegInit ==
    /\ registered = [label \in {} |-> 0]
    /\ objects = <<>>
    /\ mpc = [t \in Callers |-> "idle"]
    /\ mlocal = [t \in Callers |-> NoLocals]

\* no handler being dispatched, nothing read yet
ReadInit ==
    /\ hpc = "idle"
    /\ hlocal = <<>>
    /\ before = [c \in {} |-> {}]
    /\ snapshot = NoSnapshot

\* DCCManager.__init__: the lock is free, no thread is inside a method
LockInit ==
    /\ transfer_lock = "none"
    /\ tpc = [t \in DccThreads |-> "idle"]
    /\ tlocal = [t \in DccThreads |-> 0]
    /\ given = <<>>
    /\ access = NoAccess

\* the configured download directory
DownloadDir == <<"/", "d">>

PureInit ==
    /\ pure_call = "none"
    /\ pure_arg = NoCall
    /\ pure_result = NoCall
    /\ downloads = <<>>
    /\ disk = {DownloadDir}

\* AccessIRCWindow.__init__ (gui.py:92-97) with the configuration defaults
AnnInit ==
    /\ channel_announcement_overrides = [key \in {} |-> FALSE]
    /\ temp_announcement_mode = "None"
    /\ ui_config = [announce_all_messages |-> FALSE, announce_mentions_only |-> TRUE]
    /\ current_target = <<>>
    /\ announced = Silent

ExtInit == RegInit /\ ReadInit /\ LockInit /\ PureInit /\ AnnInit

Init == DccInit /\ IrcInit /\ ExtInit

ReceiveThread(id) ==
    \/ receive_lookup(id)
    \/ receive_connected(id)
    \/ receive_connect_failed(id)
    \/ receive_open(id)
    \/ receive_open_failed(id)
    \/ receive_loop(id)
    \/ receive_block(id)
    \/ receive_store(id)
    \/ receive_eof(id)
    \/ receive_recv_failed(id)
    \/ receive_ack(id)
    \/ receive_ack_failed(id)
    \/ receive_final(id)

SendThread(id) ==
    \/ send_lookup(id)
    \/ send_connecting(id)
    \/ send_accepted(id)
    \/ send_accept_failed(id)
    \/ send_start(id)
    \/ send_loop(id)
    \/ send_read(id)
    \/ send_eof(id)
    \/ send_block(id)
    \/ send_block_failed(id)
    \/ send_store(id)
    \/ send_progress(id)
    \/ send_final(id)

Api ==
    \/ \E size \in OfferSizes : parse_dcc_ctcp(size)
    \/ \E size \in FileSizes : initiate_send_register(size)
    \/ \E id \in Ids : initiate_send_listen(id)
    \/ \E id \in Ids : initiate_send_offer(id)
    \/ \E id \in Ids : initiate_send_start_thread(id)
    \/ \E id \in Ids : initiate_send_bind_failed(id)
    \/ \E id \in Known \cup {NoSuchId} : accept_transfer(id)
    \/ \E id \in Ids : accept_start_thread(id)
    \/ \E id \in Known \cup {NoSuchId} : reject_transfer(id)
    \/ \E id \in Known \cup {NoSuchId} : cancel_transfer(id)
    \/ cleanup

Peer == \E id \in Ids : peer_stalls(id)

DccNext ==
    \/ Api
    \/ \E id \in Ids : ReceiveThread(id)
    \/ \E id \in Ids : SendThread(id)
    \/ Peer

Next == DccNext

Spec == Init /\ [][Next]_vars

\* The manager while it is not shut down (no cleanup call) and accept and
\* reject are called for incoming offers only, with the threads scheduled
\* fairly: a started thread keeps taking steps while it has one, a blocking
\* call with a timeout ends, and a call past its lock completes.
LiveApi ==
    \/ \E size \in OfferSizes : parse_dcc_ctcp(size)
    \/ \E size \in FileSizes : initiate_send_register(size)
    \/ \E id \in Ids : initiate_send_listen(id)
    \/ \E id \in Ids : initiate_send_offer(id)
    \/ \E id \in Ids : initiate_send_start_thread(id)
    \/ \E id \in Ids : initiate_send_bind_failed(id)
    \/ \E id \in Incoming \cup {NoSuchId} : accept_transfer(id)
    \/ \E id \in Ids : accept_start_thread(id)
    \/ \E id \in Incoming \cup {NoSuchId} : reject_transfer(id)
    \/ \E id \in Known \cup {NoSuchId} : cancel_transfer(id)

LiveNext ==
    \/ LiveApi
    \/ \E id \in Ids : ReceiveThread(id)
    \/ \E id \in Ids : SendThread(id)
    \/ Peer

Fairness ==
    \A id \in Ids :
        /\ WF_vars(ReceiveThread(id))
        /\ WF_vars(SendThread(id))
        /\ WF_vars(accept_start_thread(id))
        /\ WF_vars(initiate_send_listen(id) \/ initiate_send_bind_failed(id))
        /\ WF_vars(initiate_send_offer(id))
        /\ WF_vars(initiate_send_start_thread(id))

LiveSpec == Init /\ [][LiveNext]_vars /\ Fairness

\* ====================================================== IRCConnection roster
\* Nicknames, roster entries and channel names are sequences of characters.

USER_MODE_PREFIXES == [q |-> "~", a |-> "&", o |-> "@", h |-> "%", v |-> "+"]
PREFIX_RANK == ("~" :> 5) @@ ("&" :> 4) @@ ("@" :> 3) @@ ("%" :> 2) @@ ("+" :> 1)
PREFIX_CHARS == DOMAIN PREFIX_RANK
MODE_PARAMS_ALWAYS == {"b", "e", "I"} \cup DOMAIN USER_MODE_PREFIXES
MODE_PARAMS_ON_SET == {"k", "l", "f", "j"}

RECURSIVE _strip_prefix(_)
_strip_prefix(nick) ==
    IF nick # <<>> /\ Head(nick) \in PREFIX_CHARS
    THEN _strip_prefix(Tail(nick)) ELSE nick

\* "" is the empty sequence
_get_prefix(nick) ==
    IF nick # <<>> /\ Head(nick) \in PREFIX_CHARS THEN <<Head(nick)>> ELSE <<>>

\* the entries of a roster that _find_user_entry can return for nick: the
\* first match in the set's iteration order, which is any match
_find_user_entry(users, nick) ==
    {entry \in users : _strip_prefix(entry) = _strip_prefix(nick)}

\* the roster after _remove_user_variants
_remove_user_variants(users, nick) ==
    {entry \in users : _strip_prefix(entry) # _strip_prefix(nick)}

\* channel_users after add_user_to_channel
add_user_to_channel(cu, channel, nick) ==
    LET users == IF channel \in DOMAIN cu THEN cu[channel] ELSE {}
    IN [c \in DOMAIN cu \cup {channel} |->
           IF c = channel THEN _remove_user_variants(users, nick) \cup {nick}
           ELSE cu[c]]

remove_user_from_channel(cu, channel, nick) ==
    [c \in DOMAIN cu |->
        IF c = channel THEN _remove_user_variants(cu[c], nick) ELSE cu[c]]

remove_user_from_all_channels(cu, nick) ==
    [c \in DOMAIN cu |-> _remove_user_variants(cu[c], nick)]

clear_channel_users(cu, channel) ==
    [c \in DOMAIN cu \ {channel} |-> cu[c]]

\* rename_user's loop body adding the new nickname without the prefix
rename_in_channel_bare(users, old_nick, new_nick) ==
    IF {entry \in users : _strip_prefix(entry) = _strip_prefix(old_nick)} = {}
    THEN {users}
    ELSE {{entry \in users : _strip_prefix(entry) # _strip_prefix(old_nick)}
             \cup {new_nick}}

\* the rosters one channel can have after the body of rename_user's loop
rename_in_channel(users, old_nick, new_nick) ==
    IF _find_user_entry(users, old_nick) = {} THEN {users}
    ELSE {_remove_user_variants(users, old_nick)
             \cup {_get_prefix(existing) \o new_nick} :
          existing \in _find_user_entry(users, old_nick)}

\* the values channel_users can have after rename_user
rename_user(cu, old_nick, new_nick) ==
    {f \in [DOMAIN cu -> UNION {rename_in_channel(cu[c], old_nick, new_nick) :
                                   c \in DOMAIN cu}] :
        \A c \in DOMAIN cu : f[c] \in rename_in_channel(cu[c], old_nick, new_nick)}

\* _pick_higher_prefix returning the granted prefix whatever the current one
_pick_higher_prefix_granted(current, new) ==
    IF new = <<>> THEN current ELSE new

_pick_higher_prefix(current, new) ==
    IF current = <<>> THEN new
    ELSE IF new = <<>> THEN current
    ELSE IF PREFIX_RANK[new[1]] > PREFIX_RANK[current[1]] THEN new ELSE current

\* the rosters a channel can have after _update_user_prefix
_update_user_prefix(users, nick, mode, sign) ==
    LET base == _strip_prefix(nick)
        found == _find_user_entry(users, base)
        target_prefix == <<USER_MODE_PREFIXES[mode]>>
        new_prefix(current_prefix) ==
            IF sign = "+" THEN _pick_higher_prefix(current_prefix, target_prefix)
            ELSE IF current_prefix = target_prefix THEN <<>> ELSE current_prefix
        updated(p) == _remove_user_variants(users, base) \cup {p \o base}
    IN  IF found = {}
        THEN IF sign = "-" THEN {users} ELSE {updated(new_prefix(<<>>))}
        ELSE {IF _get_prefix(e) = new_prefix(_get_prefix(e)) /\ _strip_prefix(e) = base
              THEN users ELSE updated(new_prefix(_get_prefix(e))) : e \in found}

\* _parse_mode_changes from position i of mode_str, with the sign and the
\* parameter index reached
RECURSIVE _parse_mode_changes(_, _, _, _, _)
_parse_mode_changes(mode_str, params, i, sign, param_index) ==
    IF i > Len(mode_str) THEN <<>>
    ELSE LET ch == mode_str[i]
             needs_param == \/ ch \in MODE_PARAMS_ALWAYS
                            \/ ch \in MODE_PARAMS_ON_SET /\ sign = "+"
         IN  IF ch \in {"+", "-"}
             THEN _parse_mode_changes(mode_str, params, i + 1, ch, param_index)
             ELSE IF needs_param /\ param_index > Len(params) THEN <<>>
             ELSE IF needs_param
             THEN (IF ch \in DOMAIN USER_MODE_PREFIXES /\ params[param_index] # <<>>
                   THEN <<<<sign, ch, params[param_index]>>>> ELSE <<>>)
                  \o _parse_mode_changes(mode_str, params, i + 1, sign, param_index + 1)
             ELSE _parse_mode_changes(mode_str, params, i + 1, sign, param_index)

\* the rosters a channel can have after the changes from position i on
RECURSIVE _apply_changes(_, _, _)
_apply_changes(users, changes, i) ==
    IF i > Len(changes) THEN {users}
    ELSE UNION {_apply_changes(u, changes, i + 1) :
                   u \in _update_user_prefix(users, changes[i][3], changes[i][2],
                                             changes[i][1])}

\* _apply_mode_changes giving every change the first parameter
_apply_mode_changes_first_param(users, mode_str, params) ==
    LET changes == _parse_mode_changes(mode_str, params, 1, "+", 1)
    IN  _apply_changes(users,
                       [k \in 1..Len(changes) |->
                           <<changes[k][1], changes[k][2], changes[1][3]>>], 1)

_apply_mode_changes(users, mode_str, params) ==
    _apply_changes(users, _parse_mode_changes(mode_str, params, 1, "+", 1), 1)

RECURSIVE add_names(_, _, _, _)
add_names(cu, channel, names, i) ==
    IF i > Len(names) THEN cu
    ELSE add_names(add_user_to_channel(cu, channel, names[i]), channel, names, i + 1)

\* current_channels.remove(channel): the first occurrence
RemoveFirst(seq, x) ==
    LET i == CHOOSE k \in 1..Len(seq) : seq[k] = x /\ \A j \in 1..(k - 1) : seq[j] # x
    IN  SubSeq(seq, 1, i - 1) \o SubSeq(seq, i + 1, Len(seq))

InSeq(x, seq) == \E k \in 1..Len(seq) : seq[k] = x

\* ------------------------------------------------------- inbound IRC events
Nicks == {<<"a">>, <<"m">>}
Channels == {<<"#", "c">>, <<"#", "d">>}
\* tokens of a NAMES reply: bare, prefixed, and multi-prefix entries
NameTokens == Nicks \cup {<<"@", "a">>, <<"+", "m">>, <<"@", "+", "m">>}
MaxNames == 2
NamesLists == UNION {[1..n -> NameTokens] : n \in 1..MaxNames}
ModeStrs == {<<"+", "o">>, <<"-", "o">>, <<"+", "v">>, <<"-", "v">>,
             <<"+", "o", "v">>, <<"+", "k", "o">>, <<"-", "k", "v">>}
ParamLists == UNION {[1..n -> Nicks] : n \in 0..2}

\* a callback queued with GLib.idle_add: the affected_channels argument (of
\* on_quit; empty for the other callbacks) and the membership state at the
\* moment of the idle_add call
Event(affected, cc, cu) == [affected |-> affected, seen |-> <<cc, cu>>]

\* sessvars without quoted
sessrest == <<connected, irc, alternate_nicks, _alternate_nick_index, notified,
              channel_list, channel_list_in_progress, list_pending, lpc,
              connections, sret>>

\* a handler that never asks for the topic
topic_request_skipped(channel) == {quoted}

\* the lines sent after self.irc.quote(f"TOPIC {channel}") under `if self.irc`:
\* nothing without a miniirc object; on a closed transport quote may raise,
\* which the handler catches
topic_request(channel) ==
    IF irc = "none" THEN {quoted}
    ELSE IF irc = "open" THEN {Append(quoted, <<"TOPIC", channel>>)}
    ELSE {quoted, Append(quoted, <<"TOPIC", channel>>)}

on_join_early(nick, channel) ==
    /\ current_channels' =
           IF nick = nickname /\ ~InSeq(channel, current_channels)
           THEN Append(current_channels, channel) ELSE current_channels
    /\ channel_users' = add_user_to_channel(channel_users, channel, nick)
    /\ raised' = Event({}, current_channels, channel_users)
    /\ UNCHANGED <<nickname, dccvars, extvars, sessvars, splitvars>>

on_join(nick, channel) ==
    /\ IF nick = nickname /\ ~InSeq(channel, current_channels)
       THEN /\ current_channels' = Append(current_channels, channel)
            /\ quoted' \in topic_request(channel)
       ELSE UNCHANGED <<current_channels, quoted>>
    /\ channel_users' = add_user_to_channel(channel_users, channel, nick)
    /\ UNCHANGED <<nickname, dccvars, extvars, sessrest, splitvars>>
    /\ raised' = Event({}, current_channels', channel_users')

on_part(nick, channel) ==
    /\ IF nick = nickname /\ InSeq(channel, current_channels)
       THEN /\ current_channels' = RemoveFirst(current_channels, channel)
            /\ channel_users' = clear_channel_users(channel_users, channel)
       ELSE /\ channel_users' = remove_user_from_channel(channel_users, channel, nick)
            /\ UNCHANGED current_channels
    /\ UNCHANGED <<nickname, dccvars, extvars, sessvars, splitvars>>
    /\ raised' = Event({}, current_channels', channel_users')

\* affected_channels of on_quit: the channels whose roster has nick as an element
affected_channels(cu, nick) == {channel \in DOMAIN cu : nick \in cu[channel]}

on_quit(nick) ==
    /\ channel_users' = remove_user_from_all_channels(channel_users, nick)
    /\ UNCHANGED <<nickname, current_channels, dccvars, extvars, sessvars, splitvars>>
    /\ raised' = Event(affected_channels(channel_users, nick),
                       current_channels', channel_users')

on_nick(old_nick, new_nick) ==
    /\ nickname' = IF old_nick = nickname THEN new_nick ELSE nickname
    /\ channel_users' \in rename_user(channel_users, old_nick, new_nick)
    /\ UNCHANGED <<current_channels, dccvars, extvars, sessvars, splitvars>>
    /\ raised' = Event({}, current_channels', channel_users')

on_names_reply(channel, names) ==
    /\ channel_users' = add_names(channel_users, channel, names, 1)
    /\ UNCHANGED <<nickname, current_channels, dccvars, extvars, sessvars, splitvars>>
    /\ raised' = Event({}, current_channels', channel_users')

on_kick(channel, kicked_nick) ==
    /\ IF kicked_nick = nickname /\ InSeq(channel, current_channels)
       THEN /\ current_channels' = RemoveFirst(current_channels, channel)
            /\ channel_users' = clear_channel_users(channel_users, channel)
       ELSE /\ channel_users' =
                   remove_user_from_channel(channel_users, channel, kicked_nick)
            /\ UNCHANGED current_channels
    /\ UNCHANGED <<nickname, dccvars, extvars, sessvars, splitvars>>
    /\ raised' = Event({}, current_channels', channel_users')

\* queues on_join only for a channel that was not yet in current_channels
\* on_endofnames without the membership test
on_endofnames_always(channel) ==
    /\ current_channels' = Append(current_channels, channel)
    /\ raised' = Event({}, current_channels', channel_users)
    /\ quoted' \in topic_request(channel)
    /\ UNCHANGED <<nickname, channel_users, dccvars, extvars, sessrest, splitvars>>

on_endofnames(channel) ==
    /\ IF ~InSeq(channel, current_channels)
       THEN /\ current_channels' = Append(current_channels, channel)
            /\ raised' = Event({}, current_channels', channel_users)
            /\ quoted' \in topic_request(channel)
       ELSE UNCHANGED <<current_channels, raised, quoted>>
    /\ UNCHANGED <<nickname, channel_users, dccvars, extvars, sessrest, splitvars>>

on_mode_change(target, mode_str, params) ==
    /\ IF Head(target) \in {"#", "&", "!", "+"} /\ target \in DOMAIN channel_users
       THEN \E users \in _apply_mode_changes(channel_users[target], mode_str, params) :
                channel_users' = [channel_users EXCEPT ![target] = users]
       ELSE UNCHANGED channel_users
    /\ UNCHANGED <<nickname, current_channels, dccvars, extvars, sessvars, splitvars>>
    /\ raised' = Event({}, current_channels', channel_users')

\* AccessIRCApplication.on_irc_nick, the callback on_nick queues: the channels
\* that get the "is now known as" system message, given the rosters it reads
on_irc_nick_channels(cu, new_nick) == {channel \in DOMAIN cu : new_nick \in cu[channel]}

RosterNext ==
    \/ \E nick \in Nicks, channel \in Channels : on_join(nick, channel)
    \/ \E nick \in Nicks, channel \in Channels : on_part(nick, channel)
    \/ \E nick \in Nicks : on_quit(nick)
    \/ \E old_nick \in Nicks, new_nick \in Nicks : on_nick(old_nick, new_nick)
    \/ \E channel \in Channels, names \in NamesLists : on_names_reply(channel, names)
    \/ \E channel \in Channels, kicked_nick \in Nicks : on_kick(channel, kicked_nick)
    \/ \E channel \in Channels : on_endofnames(channel)
    \/ \E target \in Channels \cup {<<"m">>}, mode_str \in ModeStrs, params \in ParamLists :
           on_mode_change(target, mode_str, params)

RosterSpec == Init /\ [][RosterNext]_vars

\* the roster when the server sends only JOIN, NAMES replies and NICK
RenameNext ==
    \/ \E nick \in Nicks, channel \in Channels : on_join(nick, channel)
    \/ \E channel \in Channels, names \in NamesLists : on_names_reply(channel, names)
    \/ \E old_nick \in Nicks, new_nick \in Nicks : on_nick(old_nick, new_nick)

RenameSpec == Init /\ [][RenameNext]_vars

\* ------------------------------------------------- session: connect, nick,
\* channel list, disconnect
BaseNickname == <<"m">>
ServerName == "TestNet"
\* server labels operations are called with; only ServerName is ever configured
Labels == {ServerName, "Other"}
\* entries of a configured alternate_nicks list: new names, the base nickname
\* in another case, and an empty entry
\* configured alternate_nicks lists: none, one and two new names, and lists
\* with the base nickname in another case, a repeated name and an empty entry
RawAlternates == {<<>>, <<<<"a">>>>, <<<<"a">>, <<"b">>>>, <<<<"M">>, <<"a">>>>,
                  <<<<"a">>, <<"a">>>>, <<<<>>, <<"b">>>>}
WelcomeNicks == {<<"m">>, <<"a">>, <<"b">>}
NickErrorCodes == {"433", "436"}
\* except branches of connect, with the hint each one reports
ConnectHints ==
    [SSLCertVerificationError |-> "disable verify", ConnectionRefusedError |-> "check port",
     OSError |-> ""]
ConnectErrors == DOMAIN ConnectHints
ListChannels == {<<"#", "c">>, <<"#", "d">>}
MaxQuoted == 3
MaxList == 2

\* str.lower on the characters in use
lower(str) == [i \in DOMAIN str |-> IF str[i] = "M" THEN "m" ELSE str[i]]

\* the loop of _normalize_alternate_nicks from candidate i on, with the list
\* built so far
RECURSIVE normalize_from(_, _, _, _)
normalize_from(candidates, base, i, normalized) ==
    IF i > Len(candidates) THEN normalized
    ELSE LET nick == candidates[i]
             skip == \/ nick = <<>>
                     \/ lower(nick) = lower(base)
                     \/ \E k \in 1..Len(normalized) : lower(normalized[k]) = lower(nick)
         IN  normalize_from(candidates, base, i + 1,
                            IF skip THEN normalized ELSE Append(normalized, nick))

_normalize_alternate_nicks(raw_nicks, base) == normalize_from(raw_nicks, base, 1, <<>>)

\* _next_alternate_nick from cursor index: the candidate (<<>> for None) and
\* the cursor it leaves
RECURSIVE _next_alternate_nick(_, _, _)
_next_alternate_nick(alternates, index, nick) ==
    IF index >= Len(alternates) THEN <<<<>>, index>>
    ELSE LET candidate == alternates[index + 1]
         IN  IF candidate # <<>> /\ lower(candidate) # lower(nick)
             THEN <<candidate, index + 1>>
             ELSE _next_alternate_nick(alternates, index + 1, nick)

Notice(name, arg) == [name |-> name, arg |-> arg]

\* IRCManager.connect_server for a label that is already registered
connect_server_registered(raw_nicks) ==
    /\ ServerName \in connections
    /\ sret' = "False"
    /\ notified' = <<>>
    /\ UNCHANGED <<dccvars, extvars, splitvars, rostervars, connected, irc, alternate_nicks,
                   _alternate_nick_index, quoted, channel_list,
                   channel_list_in_progress, list_pending, lpc, connections>>

\* a new IRCConnection whose connect() opens the transport
connect_server_ok(raw_nicks) ==
    /\ ServerName \notin connections
    /\ \A t \in Callers : lpc[t] = "idle"
    /\ nickname' = BaseNickname
    /\ alternate_nicks' = _normalize_alternate_nicks(raw_nicks, BaseNickname)
    /\ _alternate_nick_index' = 0
    /\ connected' = FALSE
    /\ current_channels' = <<>>
    /\ channel_users' = [c \in {} |-> {}]
    /\ channel_list' = <<>>
    /\ channel_list_in_progress' = FALSE
    /\ list_pending' = 0
    /\ quoted' = <<>>
    /\ irc' = "open"
    /\ connections' = connections \cup {ServerName}
    /\ notified' = <<>>
    /\ sret' = "True"
    /\ UNCHANGED <<dccvars, extvars, splitvars, raised, lpc>>

connect_server_failed_registers(raw_nicks, error) ==
    /\ ServerName \notin connections
    /\ \A t \in Callers : lpc[t] = "idle"
    /\ nickname' = BaseNickname
    /\ alternate_nicks' = _normalize_alternate_nicks(raw_nicks, BaseNickname)
    /\ _alternate_nick_index' = 0
    /\ connected' = FALSE
    /\ current_channels' = <<>>
    /\ channel_users' = [c \in {} |-> {}]
    /\ channel_list' = <<>>
    /\ channel_list_in_progress' = FALSE
    /\ list_pending' = 0
    /\ quoted' = <<>>
    /\ irc' = "closed"
    /\ notified' = <<Notice("on_connection_error", <<error, ConnectHints[error]>>)>>
    /\ connections' = connections \cup {ServerName}
    /\ sret' = "False"
    /\ UNCHANGED <<dccvars, extvars, splitvars, raised, lpc>>

\* a new IRCConnection whose irc.connect() raises error
connect_server_failed(raw_nicks, error) ==
    /\ ServerName \notin connections
    /\ \A t \in Callers : lpc[t] = "idle"
    /\ nickname' = BaseNickname
    /\ alternate_nicks' = _normalize_alternate_nicks(raw_nicks, BaseNickname)
    /\ _alternate_nick_index' = 0
    /\ connected' = FALSE
    /\ current_channels' = <<>>
    /\ channel_users' = [c \in {} |-> {}]
    /\ channel_list' = <<>>
    /\ channel_list_in_progress' = FALSE
    /\ list_pending' = 0
    /\ quoted' = <<>>
    /\ irc' = "closed"
    /\ notified' = <<Notice("on_connection_error", <<error, ConnectHints[error]>>)>>
    /\ sret' = "False"
    /\ UNCHANGED <<dccvars, extvars, splitvars, raised, lpc, connections>>

\* 001: nick is args[0], the nickname the server registered, which is the one
\* requested last
on_connect(nick) ==
    /\ irc = "open"
    /\ ~connected
    /\ nick = nickname
    /\ nickname' = nick
    /\ connected' = TRUE
    /\ notified' = <<Notice("on_connect", <<>>)>>
    /\ UNCHANGED <<dccvars, extvars, splitvars, current_channels, channel_users, raised, irc, alternate_nicks,
                   _alternate_nick_index, quoted, channel_list,
                   channel_list_in_progress, list_pending, lpc,
                   connections, sret>>

\* the message _handle_nick_error reports: what it says after "Nickname ... is
\* unavailable."
NickMessage(next_nick, auto_retry, alternates) ==
    IF next_nick # <<>> THEN <<"Trying", next_nick>>
    ELSE IF ~auto_retry THEN <<"Use /nick">>
    ELSE IF alternates # <<>> THEN <<"No alternative nicknames left", "Use /nick">>
    ELSE <<"No alternative nicknames configured", "Use /nick">>

_handle_nick_error_retry(code, quote_ok) ==
    LET auto_retry == TRUE
        found == _next_alternate_nick(alternate_nicks, _alternate_nick_index, nickname)
        switch == auto_retry /\ found[1] # <<>> /\ irc # "none"
        next_nick == IF auto_retry /\ (~switch \/ quote_ok) THEN found[1] ELSE <<>>
    IN  /\ irc = "open"
        /\ Len(quoted) < MaxQuoted
        /\ IF auto_retry /\ alternate_nicks = <<>> /\ code \in {"432", "433"}
           THEN UNCHANGED <<nickname, _alternate_nick_index, quoted, notified>>
           ELSE /\ _alternate_nick_index' =
                       IF auto_retry THEN found[2] ELSE _alternate_nick_index
                /\ nickname' = IF switch THEN found[1] ELSE nickname
                /\ quoted' = IF switch /\ quote_ok
                             THEN Append(quoted, <<"NICK", found[1]>>) ELSE quoted
                /\ notified' = <<Notice("on_server_message",
                                        NickMessage(next_nick, auto_retry, alternate_nicks))>>
        /\ UNCHANGED <<dccvars, extvars, splitvars, current_channels, channel_users, raised, connected, irc,
                       alternate_nicks, channel_list, channel_list_in_progress,
                       list_pending, lpc, connections, sret>>

_handle_nick_error_restart(code, quote_ok) ==
    LET auto_retry == ~connected
        found == _next_alternate_nick(alternate_nicks, 0, nickname)
        switch == auto_retry /\ found[1] # <<>> /\ irc # "none"
        next_nick == IF auto_retry /\ (~switch \/ quote_ok) THEN found[1] ELSE <<>>
    IN  /\ irc = "open"
        /\ Len(quoted) < MaxQuoted
        /\ IF auto_retry /\ alternate_nicks = <<>> /\ code \in {"432", "433"}
           THEN UNCHANGED <<nickname, _alternate_nick_index, quoted, notified>>
           ELSE /\ _alternate_nick_index' =
                       IF auto_retry THEN found[2] ELSE _alternate_nick_index
                /\ nickname' = IF switch THEN found[1] ELSE nickname
                /\ quoted' = IF switch /\ quote_ok
                             THEN Append(quoted, <<"NICK", found[1]>>) ELSE quoted
                /\ notified' = <<Notice("on_server_message",
                                        NickMessage(next_nick, auto_retry, alternate_nicks))>>
        /\ UNCHANGED <<dccvars, extvars, splitvars, current_channels, channel_users, raised, connected, irc,
                       alternate_nicks, channel_list, channel_list_in_progress,
                       list_pending, lpc, connections, sret>>

\* 432 / 433 / 436 / 437; quote_ok is whether irc.quote returns or raises
_handle_nick_error(code, quote_ok) ==
    LET auto_retry == ~connected
        found == _next_alternate_nick(alternate_nicks, _alternate_nick_index, nickname)
        switch == auto_retry /\ found[1] # <<>> /\ irc # "none"
        next_nick == IF auto_retry /\ (~switch \/ quote_ok) THEN found[1] ELSE <<>>
    IN  /\ irc = "open"
        /\ Len(quoted) < MaxQuoted
        /\ IF auto_retry /\ alternate_nicks = <<>> /\ code \in {"432", "433"}
           THEN UNCHANGED <<nickname, _alternate_nick_index, quoted, notified>>
           ELSE /\ _alternate_nick_index' =
                       IF auto_retry THEN found[2] ELSE _alternate_nick_index
                /\ nickname' = IF switch THEN found[1] ELSE nickname
                /\ quoted' = IF switch /\ quote_ok
                             THEN Append(quoted, <<"NICK", found[1]>>) ELSE quoted
                /\ notified' = <<Notice("on_server_message",
                                        NickMessage(next_nick, auto_retry, alternate_nicks))>>
        /\ UNCHANGED <<dccvars, extvars, splitvars, current_channels, channel_users, raised, connected, irc,
                       alternate_nicks, channel_list, channel_list_in_progress,
                       list_pending, lpc, connections, sret>>

\* request_channel_list up to its two tests
list_check(t) ==
    /\ lpc[t] = "idle"
    /\ ServerName \in connections
    /\ IF irc = "none" \/ ~connected \/ channel_list_in_progress
       THEN /\ sret' = "False"
            /\ UNCHANGED lpc
       ELSE /\ lpc' = [lpc EXCEPT ![t] = "checked"]
            /\ UNCHANGED sret
    /\ UNCHANGED <<dccvars, extvars, splitvars, rostervars, connected, irc, alternate_nicks,
                   _alternate_nick_index, quoted, notified, channel_list,
                   channel_list_in_progress, list_pending, connections>>

\* request_channel_list from the reset of channel_list to its return
list_send(t) ==
    /\ lpc[t] = "checked"
    /\ irc = "open"
    /\ Len(quoted) < MaxQuoted
    /\ channel_list' = <<>>
    /\ channel_list_in_progress' = TRUE
    /\ quoted' = Append(quoted, <<"LIST">>)
    /\ list_pending' = list_pending + 1
    /\ lpc' = [lpc EXCEPT ![t] = "idle"]
    /\ sret' = "True"
    /\ UNCHANGED <<dccvars, extvars, splitvars, rostervars, connected, irc, alternate_nicks,
                   _alternate_nick_index, notified, connections>>

\* irc.quote("LIST") raises: the flag is set and the exception leaves the call
list_send_failed(t) ==
    /\ lpc[t] = "checked"
    /\ channel_list' = <<>>
    /\ channel_list_in_progress' = TRUE
    /\ lpc' = [lpc EXCEPT ![t] = "idle"]
    /\ sret' = "raised"
    /\ UNCHANGED <<dccvars, extvars, splitvars, rostervars, connected, irc, alternate_nicks,
                   _alternate_nick_index, quoted, notified, list_pending,
                   connections>>

\* 322, sent by the server while it answers a LIST
on_list_entry(channel) ==
    /\ irc = "open"
    /\ list_pending > 0
    /\ Len(channel_list) < MaxList
    /\ channel_list' = Append(channel_list, channel)
    /\ UNCHANGED <<dccvars, extvars, splitvars, rostervars, connected, irc, alternate_nicks,
                   _alternate_nick_index, quoted, notified, channel_list_in_progress,
                   list_pending, lpc, connections, sret>>

\* 323, the server's end of one LIST answer
on_list_end ==
    /\ irc = "open"
    /\ list_pending > 0
    /\ list_pending' = list_pending - 1
    /\ channel_list_in_progress' = FALSE
    /\ notified' = <<Notice("on_channel_list_ready", channel_list)>>
    /\ UNCHANGED <<dccvars, extvars, splitvars, rostervars, connected, irc, alternate_nicks,
                   _alternate_nick_index, quoted, channel_list, lpc,
                   connections, sret>>

\* IRCManager.join_channel, one of the manager's outbound operations
join_channel(server_name, channel) ==
    /\ Len(quoted) < MaxQuoted
    /\ quoted' = IF server_name \in connections /\ irc = "open" /\ connected
                 THEN Append(quoted, <<"JOIN", channel>>) ELSE quoted
    /\ notified' = <<>>
    /\ UNCHANGED <<dccvars, extvars, splitvars, rostervars, connected, irc, alternate_nicks,
                   _alternate_nick_index, channel_list, channel_list_in_progress,
                   list_pending, lpc, connections, sret>>

\* IRCManager.disconnect_server; outcome is how irc.quote("QUIT ...") and
\* irc.disconnect() end
disconnect_server(server_name, outcome) ==
    /\ \A t \in Callers : lpc[t] = "idle"
    /\ IF server_name \in connections
       THEN /\ connections' = connections \ {server_name}
            /\ IF irc # "none" /\ outcome = "ok"
               THEN /\ quoted' = IF irc = "open" /\ Len(quoted) < MaxQuoted
                                 THEN Append(quoted, <<"QUIT">>) ELSE quoted
                    /\ irc' = "closed"
                    /\ connected' = FALSE
                    /\ notified' = <<Notice("on_disconnect", <<>>)>>
               ELSE /\ notified' = <<>>
                    /\ UNCHANGED <<quoted, irc, connected>>
       ELSE /\ notified' = <<>>
            /\ UNCHANGED <<connections, quoted, irc, connected>>
    /\ UNCHANGED <<dccvars, extvars, splitvars, rostervars, alternate_nicks, _alternate_nick_index,
                   channel_list, channel_list_in_progress, list_pending, lpc, sret>>

DisconnectOutcomes == {"ok", "quote raises"}

SessionNext ==
    \/ \E raw_nicks \in RawAlternates : connect_server_registered(raw_nicks)
    \/ \E raw_nicks \in RawAlternates : connect_server_ok(raw_nicks)
    \/ \E raw_nicks \in RawAlternates, error \in ConnectErrors :
           connect_server_failed(raw_nicks, error)
    \/ \E nick \in WelcomeNicks : on_connect(nick)
    \/ \E code \in NickErrorCodes, quote_ok \in BOOLEAN : _handle_nick_error(code, quote_ok)
    \/ \E t \in Callers : list_check(t)
    \/ \E t \in Callers : list_send(t)
    \/ \E t \in Callers : list_send_failed(t)
    \/ \E channel \in ListChannels : on_list_entry(channel)
    \/ on_list_end
    \/ \E server_name \in Labels, channel \in {<<"#", "c">>} :
           join_channel(server_name, channel)
    \/ \E server_name \in Labels, outcome \in DisconnectOutcomes :
           disconnect_server(server_name, outcome)

SessionSpec == Init /\ [][SessionNext]_vars

\* membership of a session whose miniirc object exists: the handlers run once
\* connect has created it
MembershipNext ==
    \/ \E raw_nicks \in RawAlternates : connect_server_ok(raw_nicks)
    \/ /\ irc = "open" /\ Len(quoted) < MaxQuoted
       /\ \E nick \in Nicks, channel \in Channels : on_join(nick, channel)
    \/ /\ irc = "open"
       /\ \E nick \in Nicks, channel \in Channels : on_part(nick, channel)
    \/ /\ irc = "open"
       /\ \E old_nick \in Nicks, new_nick \in Nicks : on_nick(old_nick, new_nick)
    \/ /\ irc = "open" /\ Len(quoted) < MaxQuoted
       /\ \E channel \in Channels : on_endofnames(channel)

MembershipSpec == Init /\ [][MembershipNext]_vars

\* ------------------------------------------------- outbound message chunking
IRC_MAX_LINE == 512
IRC_HOSTMASK_BUFFER == 100

\* characters of outbound text: two of one byte, one of two bytes (U+00E9) and
\* one of four bytes (U+1F525); a text is a sequence of characters
Chars == {"a", " ", "U+00E9", "U+1F525"}
utf8_width(ch) == CASE ch = "U+00E9" -> 2 [] ch = "U+1F525" -> 4 [] OTHER -> 1

\* str.encode('utf-8'): byte k of character ch is <<ch, k>>
RECURSIVE encode(_)
encode(str) ==
    IF str = <<>> THEN <<>>
    ELSE IF Len(str) = 1 THEN [k \in 1..utf8_width(str[1]) |-> <<str[1], k>>]
    ELSE LET half == Len(str) \div 2
         IN  encode(SubSeq(str, 1, half)) \o encode(SubSeq(str, half + 1, Len(str)))

DecodeError == <<"UnicodeDecodeError">>

IsLeadByte(byte) == byte[2] = 1

\* every character of the bytes is complete: a first byte starts the sequence
\* and follows a last byte, every other byte follows its predecessor of the
\* same character, and the sequence ends with a last byte
WellFormed(bytes) ==
    /\ \A p \in 1..Len(bytes) :
          IF IsLeadByte(bytes[p])
          THEN p = 1 \/ bytes[p - 1][2] = utf8_width(bytes[p - 1][1])
          ELSE p > 1 /\ bytes[p - 1] = <<bytes[p][1], bytes[p][2] - 1>>
    /\ bytes # <<>> => bytes[Len(bytes)][2] = utf8_width(bytes[Len(bytes)][1])

\* bytes.decode('utf-8'): the characters, or DecodeError
decode(bytes) ==
    IF WellFormed(bytes)
    THEN LET leads == SelectSeq(bytes, IsLeadByte)
         IN  [i \in 1..Len(leads) |-> leads[i][1]]
    ELSE DecodeError

utf8_len(str) == Len(encode(str))

\* seq[:n] of Python, n negative counting from the end
PySlice(seq, n) ==
    IF n >= 0 THEN SubSeq(seq, 1, Min(n, Len(seq)))
    ELSE SubSeq(seq, 1, IF Len(seq) + n > 0 THEN Len(seq) + n ELSE 0)

\* str.rfind(' '), 0-based, -1 when there is no space
rfind_space(str) ==
    IF \E i \in 1..Len(str) : str[i] = " "
    THEN (CHOOSE i \in 1..Len(str) :
             str[i] = " " /\ \A j \in (i + 1)..Len(str) : str[j] # " ") - 1
    ELSE -1

lstrip_one(str) == IF str # <<>> THEN Tail(str) ELSE str

\* str.lstrip(): without its leading whitespace
RECURSIVE lstrip(_)
lstrip(str) == IF str # <<>> /\ Head(str) = " " THEN lstrip(Tail(str)) ELSE str

\* the while loop that backs split_point up to a decodable prefix, with its
\* else branch
RECURSIVE back_up(_, _, _, _)
back_up(text, text_bytes, split_point, length) ==
    IF split_point > 0
    THEN LET chunk == decode(PySlice(text_bytes, split_point - 1))
         IN  IF chunk # DecodeError THEN chunk
             ELSE back_up(text, text_bytes, split_point - 1, length)
    ELSE PySlice(text, length \div 4)

decoded_prefix_chars(text, length) == PySlice(text, length)

\* the chunk before the word boundary is looked for
decoded_prefix(text, length) ==
    LET text_bytes == encode(text)
        chunk == decode(PySlice(text_bytes, length))
    IN  IF chunk # DecodeError THEN chunk
        ELSE back_up(text, text_bytes, length, length)

\* the chunk one iteration of the loop of _split_message appends, for
\* remaining = text and max_length = length
next_chunk(text, length) ==
    LET chunk == decoded_prefix(text, length)
        last_space == rfind_space(chunk)
    IN  IF last_space > length \div 2 THEN PySlice(chunk, last_space) ELSE chunk

_calculate_max_message_length(target, extra_overhead) ==
    IRC_MAX_LINE - (8 + utf8_len(target) + 2 + 2 + IRC_HOSTMASK_BUFFER + extra_overhead)

\* bytes of the line irc.msg(target, payload) transmits:
\* "PRIVMSG " target " :" payload CRLF, the payload of an action being
\* "\x01ACTION " chunk "\x01"
line_bytes(target, chunk, wrap) ==
    8 + utf8_len(target) + 2 + utf8_len(chunk) + (IF wrap = "action" THEN 9 ELSE 0) + 2

Rep(ch, n) == [i \in 1..n |-> ch]
MaxMsgLen == 4
MaxLength == 5
MaxChunks == 6
ShortMessages == UNION {[1..n -> Chars] : n \in 0..MaxMsgLen}
\* texts at and over the budget of a short target
LongMessages ==
    {Rep("a", 398), Rep("a", 399), Rep("a", 200) \o <<" ">> \o Rep("a", 250),
     <<"a">> \o Rep("U+00E9", 200)}
SendMessages == LongMessages \cup {<<>>, <<"a">>, <<"a", " ">>, <<"a", " ", "a", "a">>,
                                   <<"U+00E9", "a">>}
TargetName(n) == <<"#">> \o Rep("c", n - 1)
\* a usual channel name, and names that leave a budget of 3 and of -1 bytes
SendTargets == {TargetName(2), TargetName(397), TargetName(401)}

\* the branch of _split_message for a text within max_length, or the entry
\* of its loop
split_enter(text, length, next_pc) ==
    /\ message' = text
    /\ max_length' = length
    /\ sent' = <<>>
    /\ IF utf8_len(text) <= length
       THEN /\ chunks' = <<text>>
            /\ remaining' = <<>>
            /\ split_pc' = next_pc
       ELSE /\ chunks' = <<>>
            /\ remaining' = text
            /\ split_pc' = "loop"

\* a call of _split_message with a positive max_length
_split_message(text, length) ==
    /\ split_pc = "idle"
    /\ call_kind' = "split"
    /\ call_target' = <<>>
    /\ split_enter(text, length, "returned")
    /\ UNCHANGED <<dccvars, extvars, rostervars, sessvars>>

\* send_message / send_action up to the loop of _split_message
send_call(new_kind, new_target, text) ==
    /\ split_pc = "idle"
    /\ call_kind' = new_kind
    /\ call_target' = new_target
    /\ IF irc = "none" \/ ~connected
       THEN /\ message' = text
            /\ max_length' = 0
            /\ chunks' = <<>>
            /\ remaining' = <<>>
            /\ sent' = <<>>
            /\ split_pc' = "sent"
       ELSE split_enter(text,
                        _calculate_max_message_length(new_target,
                            IF new_kind = "action" THEN 9 ELSE 0),
                        "sending")
    /\ UNCHANGED <<dccvars, extvars, rostervars, sessvars>>

send_message(new_target, text) == send_call("message", new_target, text)

send_action(new_target, text) == send_call("action", new_target, text)

\* one iteration of the while loop of _split_message
split_iteration ==
    /\ split_pc = "loop"
    /\ Len(chunks) < MaxChunks
    /\ IF remaining = <<>>
       THEN /\ split_pc' = IF call_kind = "split" THEN "returned" ELSE "sending"
            /\ UNCHANGED <<chunks, remaining>>
       ELSE IF utf8_len(remaining) <= max_length
       THEN /\ chunks' = Append(chunks, remaining)
            /\ split_pc' = IF call_kind = "split" THEN "returned" ELSE "sending"
            /\ UNCHANGED remaining
       ELSE LET chunk == next_chunk(remaining, max_length)
            IN  /\ chunks' = Append(chunks, chunk)
                /\ remaining' =
                       lstrip(SubSeq(remaining, Len(chunk) + 1, Len(remaining)))
                /\ UNCHANGED split_pc
    /\ UNCHANGED <<dccvars, extvars, rostervars, sessvars, message, call_target, max_length, call_kind, sent>>

\* one iteration of the sending loop: irc.msg returns
send_chunk ==
    /\ split_pc = "sending"
    /\ Len(sent) < Len(chunks)
    /\ sent' = Append(sent, line_bytes(call_target, chunks[Len(sent) + 1], call_kind))
    /\ UNCHANGED <<dccvars, extvars, rostervars, sessvars, message, call_target, max_length, call_kind,
                   remaining, chunks, split_pc>>

\* the sending loop ends: every chunk is sent, or irc.msg raised
send_return ==
    /\ split_pc = "sending"
    /\ split_pc' = "sent"
    /\ UNCHANGED <<dccvars, extvars, rostervars, sessvars, message, call_target, max_length, call_kind,
                   remaining, chunks, sent>>

\* a registered, welcomed session
SplitInit ==
    /\ DccInit
    /\ ExtInit
    /\ nickname = BaseNickname
    /\ current_channels = <<>>
    /\ channel_users = [c \in {} |-> {}]
    /\ raised = NoEvent
    /\ connected = TRUE
    /\ irc = "open"
    /\ alternate_nicks = <<>>
    /\ _alternate_nick_index = 0
    /\ quoted = <<>>
    /\ notified = <<Notice("on_connect", <<>>)>>
    /\ channel_list = <<>>
    /\ channel_list_in_progress = FALSE
    /\ list_pending = 0
    /\ lpc = [t \in Callers |-> "idle"]
    /\ connections = {ServerName}
    /\ sret = "True"
    /\ SplitIdle

SplitNext ==
    \/ \E text \in ShortMessages, length \in 1..MaxLength : _split_message(text, length)
    \/ \E new_target \in SendTargets, text \in SendMessages : send_message(new_target, text)
    \/ \E new_target \in SendTargets, text \in SendMessages : send_action(new_target, text)
    \/ split_iteration
    \/ send_chunk
    \/ send_return

SplitSpec == SplitInit /\ [][SplitNext]_vars

\* ------------------------------ IRCManager.connections, concurrent callers
\* IRCManager never acquires _connections_lock (irc_manager.py:1548 is its only
\* occurrence), so the statements of connect_server and disconnect_server of
\* different callers interleave.
MaxObjects == 3

\* connect_server up to the construction of the IRCConnection
connect_server_check(t, server_name) ==
    /\ mpc[t] = "idle"
    /\ IF server_name \in DOMAIN registered
       THEN /\ mlocal' = [mlocal EXCEPT ![t] =
                             [server_name |-> server_name, connection |-> 0, ret |-> "False"]]
            /\ UNCHANGED <<objects, mpc>>
       ELSE /\ Len(objects) < MaxObjects
            /\ objects' = Append(objects, "none")
            /\ mlocal' = [mlocal EXCEPT ![t] =
                             [server_name |-> server_name, connection |-> Len(objects) + 1,
                              ret |-> "none"]]
            /\ mpc' = [mpc EXCEPT ![t] = "connect"]
    /\ UNCHANGED <<registered, dccvars, rostervars, sessvars, splitvars,
                   readvars, lockvars, purevars, annvars>>

\* connection.connect() returns
connect_server_connect(t, ok) ==
    /\ mpc[t] = "connect"
    /\ IF ok
       THEN /\ objects' = [objects EXCEPT ![mlocal[t].connection] = "connected"]
            /\ mpc' = [mpc EXCEPT ![t] = "store"]
            /\ UNCHANGED mlocal
       ELSE /\ mlocal' = [mlocal EXCEPT ![t].ret = "False"]
            /\ mpc' = [mpc EXCEPT ![t] = "idle"]
            /\ UNCHANGED objects
    /\ UNCHANGED <<registered, dccvars, rostervars, sessvars, splitvars,
                   readvars, lockvars, purevars, annvars>>

\* self.connections[server_name] = connection; return True
connect_server_store(t) ==
    /\ mpc[t] = "store"
    /\ registered' = [label \in DOMAIN registered \cup {mlocal[t].server_name} |->
                         IF label = mlocal[t].server_name THEN mlocal[t].connection
                         ELSE registered[label]]
    /\ mlocal' = [mlocal EXCEPT ![t].ret = "True"]
    /\ mpc' = [mpc EXCEPT ![t] = "idle"]
    /\ UNCHANGED <<objects, dccvars, rostervars, sessvars, splitvars,
                   readvars, lockvars, purevars, annvars>>

\* connection = self.connections.get(server_name)
disconnect_server_get(t, server_name) ==
    /\ mpc[t] = "idle"
    /\ IF server_name \in DOMAIN registered
       THEN /\ mlocal' = [mlocal EXCEPT ![t] =
                             [server_name |-> server_name,
                              connection |-> registered[server_name], ret |-> "none"]]
            /\ mpc' = [mpc EXCEPT ![t] = "disconnect"]
       ELSE /\ mlocal' = [mlocal EXCEPT ![t] =
                             [server_name |-> server_name, connection |-> 0, ret |-> "None"]]
            /\ UNCHANGED mpc
    /\ UNCHANGED <<registered, objects, dccvars, rostervars, sessvars, splitvars,
                   readvars, lockvars, purevars, annvars>>

\* connection.disconnect(reason), which closes the transport unless
\* irc.quote raised (it catches the exception)
disconnect_server_disconnect(t, outcome) ==
    /\ mpc[t] = "disconnect"
    /\ objects' = [objects EXCEPT ![mlocal[t].connection] =
                      IF outcome = "ok" THEN "disconnected"
                      ELSE IF @ = "connected" THEN "disconnect failed" ELSE @]
    /\ mpc' = [mpc EXCEPT ![t] = "del"]
    /\ UNCHANGED <<registered, mlocal, dccvars, rostervars, sessvars, splitvars,
                   readvars, lockvars, purevars, annvars>>

\* del self.connections[server_name]: KeyError when another caller removed it
disconnect_server_del(t) ==
    /\ mpc[t] = "del"
    /\ IF mlocal[t].server_name \in DOMAIN registered
       THEN /\ registered' = [label \in DOMAIN registered \ {mlocal[t].server_name} |->
                                 registered[label]]
            /\ mlocal' = [mlocal EXCEPT ![t].ret = "None"]
       ELSE /\ mlocal' = [mlocal EXCEPT ![t].ret = "KeyError"]
            /\ UNCHANGED registered
    /\ mpc' = [mpc EXCEPT ![t] = "idle"]
    /\ UNCHANGED <<objects, dccvars, rostervars, sessvars, splitvars,
                   readvars, lockvars, purevars, annvars>>

RegistryNext ==
    \/ \E t \in Callers, server_name \in Labels : connect_server_check(t, server_name)
    \/ \E t \in Callers, ok \in BOOLEAN : connect_server_connect(t, ok)
    \/ \E t \in Callers : connect_server_store(t)
    \/ \E t \in Callers, server_name \in Labels : disconnect_server_get(t, server_name)
    \/ \E t \in Callers, outcome \in DisconnectOutcomes : disconnect_server_disconnect(t, outcome)
    \/ \E t \in Callers : disconnect_server_del(t)

RegistrySpec == Init /\ [][RegistryNext]_vars

\* ------------------- roster reads of another thread during inbound dispatch
\* IRCConnection has no lock: miniirc runs the inbound handlers on its own
\* threads while the GTK thread calls get_channel_users (gui.py:955, 1588), so
\* a read falls between any two statements of rename_user and of
\* _update_user_prefix. The roster is read as a set: sorted(list(...)) of it.
ReadModes == {"o"}
ReadSigns == {"+", "-"}

\* the entry _update_user_prefix adds for each entry _find_user_entry can
\* return (<<>> stands for None); no entry where it returns False
prefix_displays(users, nick, mode, sign) ==
    LET base == _strip_prefix(nick)
        found == _find_user_entry(users, base)
        target_prefix == <<USER_MODE_PREFIXES[mode]>>
        new_prefix(current_prefix) ==
            IF sign = "+" THEN _pick_higher_prefix(current_prefix, target_prefix)
            ELSE IF current_prefix = target_prefix THEN <<>> ELSE current_prefix
    IN  IF found = {}
        THEN IF sign = "-" THEN {} ELSE {new_prefix(<<>>) \o base}
        ELSE {new_prefix(_get_prefix(e)) \o base :
                 e \in {x \in found : ~(_get_prefix(x) = new_prefix(_get_prefix(x))
                                        /\ _strip_prefix(x) = base)}}

\* on_join and on_names_reply, dispatched while no other handler runs
dispatch_join(nick, channel) ==
    /\ hpc = "idle"
    /\ on_join(nick, channel)

\* on_nick up to rename_user's loop
rename_begin(old_nick, new_nick) ==
    /\ hpc = "idle"
    /\ nickname' = IF old_nick = nickname THEN new_nick ELSE nickname
    /\ before' = channel_users
    /\ hlocal' = [kind |-> "rename", nick |-> old_nick, arg |-> new_nick,
                  todo |-> DOMAIN channel_users, channel |-> <<>>, display |-> <<>>]
    /\ hpc' = "rename"
    /\ UNCHANGED <<current_channels, channel_users, raised, snapshot, dccvars, sessvars,
                   splitvars, regvars, lockvars, purevars, annvars>>

\* one iteration of rename_user's loop up to _remove_user_variants
rename_remove(channel) ==
    /\ hpc = "rename"
    /\ channel \in hlocal.todo
    /\ IF _find_user_entry(channel_users[channel], hlocal.nick) = {}
       THEN /\ hlocal' = [hlocal EXCEPT !.todo = @ \ {channel}]
            /\ UNCHANGED <<channel_users, hpc>>
       ELSE /\ \E existing \in _find_user_entry(channel_users[channel], hlocal.nick) :
                   hlocal' = [hlocal EXCEPT !.todo = @ \ {channel}, !.channel = channel,
                                            !.display = _get_prefix(existing) \o hlocal.arg]
            /\ channel_users' = [channel_users EXCEPT ![channel] =
                                    _remove_user_variants(@, hlocal.nick)]
            /\ hpc' = "rename_add"
    /\ UNCHANGED <<nickname, current_channels, raised, before, snapshot, dccvars, sessvars,
                   splitvars, regvars, lockvars, purevars, annvars>>

\* self.channel_users[channel].add(...), the end of the iteration
rename_add ==
    /\ hpc = "rename_add"
    /\ channel_users' = [channel_users EXCEPT ![hlocal.channel] = @ \cup {hlocal.display}]
    /\ hpc' = "rename"
    /\ UNCHANGED <<nickname, current_channels, raised, hlocal, before, snapshot, dccvars,
                   sessvars, splitvars, regvars, lockvars, purevars, annvars>>

\* the loop ends; on_nick queues its callback
rename_end ==
    /\ hpc = "rename"
    /\ hlocal.todo = {}
    /\ hpc' = "idle"
    /\ hlocal' = <<>>
    /\ before' = [c \in {} |-> {}]
    /\ raised' = Event({}, current_channels, channel_users)
    /\ UNCHANGED <<nickname, current_channels, channel_users, snapshot,
                   dccvars, sessvars, splitvars, regvars, lockvars, purevars, annvars>>

\* on_mode_change with one privilege letter: _update_user_prefix up to
\* _remove_user_variants, when it does not return False
prefix_remove(channel, nick, mode, sign) ==
    /\ hpc = "idle"
    /\ channel \in DOMAIN channel_users
    /\ \E display \in prefix_displays(channel_users[channel], nick, mode, sign) :
           hlocal' = [kind |-> "prefix", nick |-> nick, arg |-> <<mode, sign>>,
                      todo |-> {}, channel |-> channel, display |-> display]
    /\ before' = channel_users
    /\ channel_users' = [channel_users EXCEPT ![channel] = _remove_user_variants(@, nick)]
    /\ hpc' = "prefix_add"
    /\ UNCHANGED <<nickname, current_channels, raised, snapshot, dccvars, sessvars,
                   splitvars, regvars, lockvars, purevars, annvars>>

\* self.channel_users[channel].add(display); on_mode_change queues its callback
prefix_add ==
    /\ hpc = "prefix_add"
    /\ channel_users' = [channel_users EXCEPT ![hlocal.channel] = @ \cup {hlocal.display}]
    /\ hpc' = "idle"
    /\ hlocal' = <<>>
    /\ before' = [c \in {} |-> {}]
    /\ UNCHANGED <<nickname, current_channels, snapshot, dccvars,
                   sessvars, splitvars, regvars, lockvars, purevars, annvars>>
    /\ raised' = Event({}, current_channels', channel_users')

\* the rosters a channel can have after the whole event being dispatched
after_event(channel) ==
    IF hlocal.kind = "rename"
    THEN rename_in_channel(before[channel], hlocal.nick, hlocal.arg)
    ELSE IF hlocal.channel = channel
         THEN _update_user_prefix(before[channel], hlocal.nick, hlocal.arg[1], hlocal.arg[2])
         ELSE {before[channel]}

\* get_channel_users on the reading thread. History: during, whether a
\* handler was being dispatched, and whole, whether the roster read is the
\* channel's roster from before that event or from after the whole event
get_channel_users(channel) ==
    LET users == IF channel \in DOMAIN channel_users THEN channel_users[channel] ELSE {}
    IN  /\ snapshot' = [channel |-> channel,
                        during |-> hpc # "idle",
                        whole |-> \/ hpc = "idle"
                                  \/ channel \notin DOMAIN before
                                  \/ users = before[channel]
                                  \/ users \in after_event(channel)]
        /\ UNCHANGED <<nickname, current_channels, channel_users, raised, hpc, hlocal, before,
                       dccvars, sessvars, splitvars, regvars, lockvars, purevars, annvars>>

ReadNext ==
    \/ \E nick \in Nicks, channel \in Channels : dispatch_join(nick, channel)
    \/ \E old_nick \in Nicks, new_nick \in Nicks : rename_begin(old_nick, new_nick)
    \/ \E channel \in Channels : rename_remove(channel)
    \/ rename_add
    \/ rename_end
    \/ \E channel \in Channels, nick \in Nicks, mode \in ReadModes, sign \in ReadSigns :
           prefix_remove(channel, nick, mode, sign)
    \/ prefix_add
    \/ \E channel \in Channels : get_channel_users(channel)

ReadSpec == Init /\ [][ReadNext]_vars

\* ------------------ the transfer manager's registry and lock, by statement
\* One step per statement that reads or writes _next_id, transfers,
\* _listen_sockets or _transfer_lock, for threads that run DCCManager methods
\* concurrently; the transfer ids are the numbers n of "dcc_n".
MaxNextId == 3

\* the send thread that initiate_send starts when called by t
send_thread_of(t) == IF t = "t1" THEN "s1" ELSE "s2"

Access(map, t) == [map |-> map, by |-> t, locked |-> transfer_lock = t]

\* _generate_transfer_id: transfer_id = f"dcc_{self._next_id}", reached from
\* parse_dcc_ctcp (op "parse") or initiate_send (op "send"), outside the lock
generate_read(t, op) ==
    /\ tpc[t] = "idle"
    /\ next_id <= MaxNextId
    /\ op = "send" => tpc[send_thread_of(t)] = "idle"
    /\ tlocal' = [tlocal EXCEPT ![t] = next_id]
    /\ tpc' = [tpc EXCEPT ![t] = IF op = "parse" THEN "parse_incr" ELSE "send_incr"]
    /\ UNCHANGED <<next_id, transfers, listen_sockets, transfer_lock, given, access, dccrest,
                   rostervars, sessvars, splitvars, regvars, readvars, purevars, annvars>>

\* self._next_id += 1; return transfer_id; DCCTransfer(id=...)
generate_incr(t) ==
    /\ tpc[t] \in {"parse_incr", "send_incr"}
    /\ next_id' = next_id + 1
    /\ given' = Append(given, tlocal[t])
    /\ tpc' = [tpc EXCEPT ![t] = IF @ = "parse_incr" THEN "parse_lock" ELSE "send_lock"]
    /\ UNCHANGED <<transfers, listen_sockets, transfer_lock, tlocal, access, dccrest,
                   rostervars, sessvars, splitvars, regvars, readvars, purevars, annvars>>

\* with self._transfer_lock: entered
lock_acquire(t) ==
    /\ tpc[t] \in {"parse_lock", "send_lock", "cleanup_lock", "lookup_lock"}
    /\ transfer_lock = "none"
    /\ transfer_lock' = t
    /\ tpc' = [tpc EXCEPT ![t] = CASE @ = "parse_lock" -> "parse_store"
                                   [] @ = "send_lock" -> "send_store"
                                   [] @ = "cleanup_lock" -> "cleanup_locked"
                                   [] OTHER -> "lookup_locked"]
    /\ UNCHANGED <<next_id, transfers, listen_sockets, tlocal, given, access, dccrest,
                   rostervars, sessvars, splitvars, regvars, readvars, purevars, annvars>>

\* self.transfers[transfer.id] = transfer, and the lock is released;
\* parse_dcc_ctcp returns
register_transfer(t) ==
    /\ tpc[t] \in {"parse_store", "send_store"}
    /\ transfers' = transfers \cup {tlocal[t]}
    /\ access' = Access("transfers", t)
    /\ transfer_lock' = "none"
    /\ tpc' = [tpc EXCEPT ![t] = IF @ = "parse_store" THEN "idle" ELSE "send_listen"]
    /\ UNCHANGED <<next_id, listen_sockets, tlocal, given, dccrest,
                   rostervars, sessvars, splitvars, regvars, readvars, purevars, annvars>>

\* initiate_send: bind and listen succeed, self._listen_sockets[transfer.id] =
\* listen_sock, the offer is sent and the send thread is started
register_listen_socket(t) ==
    /\ tpc[t] = "send_listen"
    /\ listen_sockets' = listen_sockets \cup {tlocal[t]}
    /\ access' = Access("_listen_sockets", t)
    /\ tpc' = [tpc EXCEPT ![t] = "idle", ![send_thread_of(t)] = "lookup_lock"]
    /\ tlocal' = [tlocal EXCEPT ![send_thread_of(t)] = tlocal[t]]
    /\ UNCHANGED <<next_id, transfers, transfer_lock, given, dccrest,
                   rostervars, sessvars, splitvars, regvars, readvars, purevars, annvars>>

\* initiate_send: bind or listen raises, the transfer is marked failed
listen_failed(t) ==
    /\ tpc[t] = "send_listen"
    /\ tpc' = [tpc EXCEPT ![t] = "idle"]
    /\ UNCHANGED <<next_id, transfers, listen_sockets, transfer_lock, tlocal, given, access,
                   dccrest, rostervars, sessvars, splitvars, regvars, readvars, purevars,
                   annvars>>

\* _send_file_thread: the two lookups, and the lock is released
send_thread_lookup(t) ==
    /\ tpc[t] = "lookup_locked"
    /\ access' = Access("_listen_sockets", t)
    /\ transfer_lock' = "none"
    /\ tpc' = [tpc EXCEPT ![t] =
                  IF tlocal[t] \in transfers /\ tlocal[t] \in listen_sockets
                  THEN "accept" ELSE "idle"]
    /\ UNCHANGED <<next_id, transfers, listen_sockets, tlocal, given, dccrest,
                   rostervars, sessvars, splitvars, regvars, readvars, purevars, annvars>>

\* listen_sock.accept() returns or raises
send_thread_accept(t, accepted) ==
    /\ tpc[t] = "accept"
    /\ tpc' = [tpc EXCEPT ![t] = IF accepted THEN "del" ELSE "idle"]
    /\ UNCHANGED <<next_id, transfers, listen_sockets, transfer_lock, tlocal, given, access,
                   dccrest, rostervars, sessvars, splitvars, regvars, readvars, purevars,
                   annvars>>

\* listen_sock.close(); del self._listen_sockets[transfer_id] (KeyError when
\* cleanup cleared the map: the thread's handler ends it)
send_thread_del(t) ==
    /\ tpc[t] = "del"
    /\ listen_sockets' = listen_sockets \ {tlocal[t]}
    /\ access' = Access("_listen_sockets", t)
    /\ tpc' = [tpc EXCEPT ![t] = IF tlocal[t] \in listen_sockets THEN "sending" ELSE "idle"]
    /\ UNCHANGED <<next_id, transfers, transfer_lock, tlocal, given, dccrest,
                   rostervars, sessvars, splitvars, regvars, readvars, purevars, annvars>>

\* the sending loop, inside conn.send, ends
send_thread_sent(t) ==
    /\ tpc[t] = "sending"
    /\ tpc' = [tpc EXCEPT ![t] = "idle"]
    /\ UNCHANGED <<next_id, transfers, listen_sockets, transfer_lock, tlocal, given, access,
                   dccrest, rostervars, sessvars, splitvars, regvars, readvars, purevars,
                   annvars>>

\* cleanup is called
cleanup_call(t) ==
    /\ tpc[t] = "idle"
    /\ transfers # {} \/ listen_sockets # {}
    /\ tpc' = [tpc EXCEPT ![t] = "cleanup_lock"]
    /\ UNCHANGED <<next_id, transfers, listen_sockets, transfer_lock, tlocal, given, access,
                   dccrest, rostervars, sessvars, splitvars, regvars, readvars, purevars,
                   annvars>>

\* cleanup under the lock: both maps are iterated and cleared
cleanup_clear(t) ==
    /\ tpc[t] = "cleanup_locked"
    /\ transfers' = {}
    /\ listen_sockets' = {}
    /\ access' = Access("_listen_sockets", t)
    /\ transfer_lock' = "none"
    /\ tpc' = [tpc EXCEPT ![t] = "idle"]
    /\ UNCHANGED <<next_id, tlocal, given, dccrest,
                   rostervars, sessvars, splitvars, regvars, readvars, purevars, annvars>>

\* a thread is inside a blocking socket call
Blocking(t) == tpc[t] \in {"accept", "sending"}

LockNext ==
    \/ \E t \in ApiThreads, op \in {"parse", "send"} : generate_read(t, op)
    \/ \E t \in ApiThreads : generate_incr(t)
    \/ \E t \in DccThreads : lock_acquire(t)
    \/ \E t \in ApiThreads : register_transfer(t)
    \/ \E t \in ApiThreads : register_listen_socket(t)
    \/ \E t \in ApiThreads : listen_failed(t)
    \/ \E t \in SendThreads : send_thread_lookup(t)
    \/ \E t \in SendThreads, accepted \in BOOLEAN : send_thread_accept(t, accepted)
    \/ \E t \in SendThreads : send_thread_del(t)
    \/ \E t \in SendThreads : send_thread_sent(t)
    \/ \E t \in ApiThreads : cleanup_call(t)
    \/ \E t \in ApiThreads : cleanup_clear(t)

LockSpec == Init /\ [][LockNext]_vars

\* ------------- offer parsing, filename sanitizing and collision resolution
\* Strings are sequences of characters; "NUL" is the null byte.
SANITIZE_MAX_LEN == 200
UnsafeChars == {":", "*", "?", "\"", "<", ">", "|"}
Whitespace == {" "}

\* the greatest element of a non-empty set of integers
Max(S) == CHOOSE x \in S : \A y \in S : y <= x

\* str.replace(ch, "")
remove_char(str, ch) == SelectSeq(str, LAMBDA c : c # ch)

\* str.replace(ch, "_") for each ch of a set of single characters
replace_chars(str, chs) == [i \in DOMAIN str |-> IF str[i] \in chs THEN "_" ELSE str[i]]

\* the number of consecutive "." immediately before position i
dots_before(str, i) ==
    LET others == {j \in 1..(i - 1) : str[j] # "."}
    IN  IF others = {} THEN i - 1 ELSE i - Max(others) - 1

replace_dotdot_kept(str) == str

\* str.replace("..", "_"): the non-overlapping occurrences from the left, so
\* of a run of dots each pair becomes "_" and an odd last dot stays
replace_dotdot(str) ==
    LET out == [i \in DOMAIN str |->
                   IF str[i] # "." THEN str[i]
                   ELSE IF dots_before(str, i) % 2 = 1 THEN "dropped"
                   ELSE IF i < Len(str) /\ str[i + 1] = "." THEN "_"
                   ELSE "."]
    IN  SelectSeq(out, LAMBDA c : c # "dropped")

\* str.strip() is empty
is_blank(str) == \A i \in DOMAIN str : str[i] \in Whitespace

Unnamed == <<"u", "n", "n", "a", "m", "e", "d", "_", "f", "i", "l", "e">>

_sanitize_filename(filename) ==
    LET no_nul == remove_char(filename, "NUL")
        no_sep == replace_chars(no_nul, {"/", "\\"})
        no_up == replace_dotdot(no_sep)
        safe == replace_chars(no_up, UnsafeChars)
        named == IF is_blank(safe) THEN Unnamed ELSE safe
    IN  IF Len(named) > SANITIZE_MAX_LEN THEN SubSeq(named, 1, SANITIZE_MAX_LEN) ELSE named

\* declared filenames: every short one over the characters that matter, and
\* long ones around the length limit
SanitizeChars == {"a", ".", "/", "\\", "NUL", " ", ":"}
MaxNameLen == 4
ShortNames == UNION {[1..n -> SanitizeChars] : n \in 0..MaxNameLen}
LongNames ==
    {head \o Rep(ch, n) : head \in UNION {[1..k -> SanitizeChars] : k \in 0..1},
                          ch \in {"a", ".", "NUL"},
                          n \in (SANITIZE_MAX_LEN - 1)..(SANITIZE_MAX_LEN + 1)}
DeclaredNames == ShortNames \cup LongNames

sanitize_call(filename) ==
    /\ pure_call = "none"
    /\ pure_call' = "_sanitize_filename"
    /\ pure_arg' = [filename |-> filename]
    /\ pure_result' = [filename |-> _sanitize_filename(filename)]
    /\ UNCHANGED <<dccvars, rostervars, sessvars, splitvars, regvars, readvars, lockvars,
                   annvars, downloadvars>>

\* str(n) for n >= 0
Digits == <<"0", "1", "2", "3", "4", "5", "6", "7", "8", "9">>
RECURSIVE ToDigits(_)
ToDigits(n) == IF n < 10 THEN <<Digits[n + 1]>> ELSE ToDigits(n \div 10) \o <<Digits[(n % 10) + 1]>>

\* str.rfind(ch), 1-based, 0 when ch does not occur
rfind(str, ch) ==
    IF \E i \in DOMAIN str : str[i] = ch
    THEN Max({i \in DOMAIN str : str[i] = ch}) ELSE 0

\* os.path.splitext: the extension starts at the last dot of the last path
\* component, unless only dots precede it there
splitext(p) ==
    LET sepIndex == rfind(p, "/")
        dotIndex == rfind(p, ".")
    IN  IF dotIndex > sepIndex /\ \E k \in (sepIndex + 1)..(dotIndex - 1) : p[k] # "."
        THEN <<SubSeq(p, 1, dotIndex - 1), SubSeq(p, dotIndex, Len(p))>>
        ELSE <<p, <<>>>>

\* f"{base}_{counter}{ext}"
suffixed(filepath, counter) ==
    splitext(filepath)[1] \o <<"_">> \o ToDigits(counter) \o splitext(filepath)[2]

\* the while loop of _get_unique_filepath from counter on; existing is the set
\* of paths os.path.exists answers True for
RECURSIVE unique_from(_, _, _)
unique_from(filepath, counter, existing) ==
    IF suffixed(filepath, counter) \in existing
    THEN unique_from(filepath, counter + 1, existing)
    ELSE suffixed(filepath, counter)

_get_unique_filepath_first(filepath, existing) ==
    IF filepath \notin existing THEN filepath ELSE suffixed(filepath, 1)

_get_unique_filepath(filepath, existing) ==
    IF filepath \notin existing THEN filepath ELSE unique_from(filepath, 1, existing)

\* destination paths, and for each the file systems the call is made on
MaxSuffix == 3
ManySuffixes == 10
FilePaths == {<<"/", "d", "/", "f", ".", "t">>, <<"/", "d", "/", "f">>, <<"/", "d", "/", ".", "f">>,
              <<"/", "d", ".", "x", "/", "f">>, <<"/", "d", "/", "f", ".", "t", ".", "g">>, <<"/", "d", "/", "f", ".">>}
FileSystems(filepath) ==
    SUBSET ({filepath, filepath \o <<"_", "1">>}
            \cup {suffixed(filepath, n) : n \in 1..MaxSuffix})
    \cup {{filepath} \cup {suffixed(filepath, n) : n \in 1..ManySuffixes}}

unique_call(filepath, existing) ==
    /\ pure_call = "none"
    /\ existing \in FileSystems(filepath)
    /\ pure_call' = "_get_unique_filepath"
    /\ pure_arg' = [filepath |-> filepath, existing |-> existing]
    /\ pure_result' = [filepath |-> _get_unique_filepath(filepath, existing)]
    /\ UNCHANGED <<dccvars, rostervars, sessvars, splitvars, regvars, readvars, lockvars,
                   annvars, downloadvars>>

AllFileSystems == UNION {FileSystems(filepath) : filepath \in FilePaths}

\* str.upper() on the letters of the keyword
UpperOf == ("d" :> "D") @@ ("c" :> "C") @@ ("s" :> "S") @@ ("e" :> "E") @@ ("n" :> "N")
         @@ ("t" :> "T")
upper(str) == [i \in DOMAIN str |-> IF str[i] \in DOMAIN UpperOf THEN UpperOf[str[i]] ELSE str[i]]

startswith(str, prefix) ==
    Len(str) >= Len(prefix) /\ SubSeq(str, 1, Len(prefix)) = prefix

\* str.strip()
strip(str) ==
    LET kept == {i \in DOMAIN str : str[i] \notin Whitespace}
    IN  IF kept = {} THEN <<>>
        ELSE SubSeq(str, CHOOSE i \in kept : \A j \in kept : i <= j, Max(kept))

\* str.find(ch, 1): 1-based position of the first ch after the first
\* character, 0 when there is none
find_from_second(str, ch) ==
    LET hits == {i \in 2..Len(str) : str[i] = ch}
    IN  IF hits = {} THEN 0 ELSE CHOOSE i \in hits : \A j \in hits : i <= j

\* str.split(): the maximal runs of non-whitespace characters
RECURSIVE split(_)
split(str) ==
    LET s == strip(str)
        spaces == {i \in DOMAIN s : s[i] \in Whitespace}
        first == CHOOSE i \in spaces : \A j \in spaces : i <= j
    IN  IF s = <<>> THEN <<>>
        ELSE IF spaces = {} THEN <<s>>
        ELSE <<SubSeq(s, 1, first - 1)>> \o split(SubSeq(s, first + 1, Len(s)))

DigitValue == [d \in {Digits[i] : i \in DOMAIN Digits} |-> (CHOOSE i \in DOMAIN Digits : Digits[i] = d) - 1]

\* int(token): an optional sign and decimal digits; ok is FALSE for ValueError
py_int(token) ==
    LET signed == token # <<>> /\ token[1] \in {"+", "-"}
        digits == IF signed THEN Tail(token) ELSE token
    IN  [ok |-> digits # <<>> /\ \A i \in DOMAIN digits : digits[i] \in DOMAIN DigitValue,
         negative |-> signed /\ token[1] = "-",
         digits |-> digits]

\* the value of an int of at most nine digits
RECURSIVE digits_value(_)
digits_value(digits) ==
    IF digits = <<>> THEN 0
    ELSE digits_value(SubSeq(digits, 1, Len(digits) - 1)) * 10 + DigitValue[digits[Len(digits)]]
int_value(n) == IF n.negative THEN 0 - digits_value(n.digits) ELSE digits_value(n.digits)

\* division of a decimal numeral by 256, digit by digit: <<quotient, remainder>>
RECURSIVE divmod256(_, _, _)
divmod256(digits, rem, quotient) ==
    IF digits = <<>> THEN <<quotient, rem>>
    ELSE LET cur == rem * 10 + DigitValue[Head(digits)]
         IN  divmod256(Tail(digits), cur % 256, quotient \o <<Digits[(cur \div 256) + 1]>>)

is_zero(digits) == \A i \in DOMAIN digits : digits[i] = "0"

\* struct.pack("!L", n): the four bytes of n, most significant first; ok is
\* FALSE for struct.error (n negative or above 2**32 - 1)
pack_network_long(n) ==
    LET d4 == divmod256(n.digits, 0, <<>>)
        d3 == divmod256(d4[1], 0, <<>>)
        d2 == divmod256(d3[1], 0, <<>>)
        d1 == divmod256(d2[1], 0, <<>>)
    IN  [ok |-> is_zero(d1[1]) /\ (~n.negative \/ is_zero(n.digits)),
         bytes |-> <<d1[2], d2[2], d3[2], d4[2]>>]

\* socket.inet_ntoa: the dotted quad of four bytes
inet_ntoa(bytes) ==
    ToDigits(bytes[1]) \o <<".">> \o ToDigits(bytes[2]) \o <<".">>
        \o ToDigits(bytes[3]) \o <<".">> \o ToDigits(bytes[4])

_long_to_ip_reversed(ip_long) ==
    LET packed == pack_network_long(ip_long)
    IN  [ok |-> packed.ok,
         ip |-> IF packed.ok
                THEN inet_ntoa(<<packed.bytes[4], packed.bytes[3], packed.bytes[2],
                                 packed.bytes[1]>>)
                ELSE <<>>]

\* ok is FALSE when _long_to_ip raises
_long_to_ip(ip_long) ==
    LET packed == pack_network_long(ip_long)
    IN  [ok |-> packed.ok, ip |-> IF packed.ok THEN inet_ntoa(packed.bytes) ELSE <<>>]

\* str(Path(download_dir) / safe_filename): pathlib drops a "." component
path_join(dir, name) == IF name = <<".">> THEN dir ELSE dir \o <<"/">> \o name

NoOffer == [ok |-> FALSE]

\* parse_dcc_ctcp up to the DCCTransfer it constructs: filename, rest and the
\* three integers, the address, the destination path
parse_offer(text, existing) ==
    LET parts == strip(SubSeq(text, 10, Len(text)))
        quoted_name == startswith(parts, <<"\"">>)
        end_quote == find_from_second(parts, "\"")
        parts_split == split(parts)
        well_formed == IF quoted_name THEN end_quote # 0 ELSE Len(parts_split) >= 4
        filename == IF quoted_name THEN SubSeq(parts, 2, end_quote - 1) ELSE parts_split[1]
        rest == IF quoted_name THEN split(SubSeq(parts, end_quote + 1, Len(parts)))
                ELSE Tail(parts_split)
        ip_long == py_int(rest[1])
        port == py_int(rest[2])
        filesize == py_int(rest[3])
        ip == _long_to_ip(ip_long)
    IN  IF ~startswith(upper(text), <<"D", "C", "C", " ", "S", "E", "N", "D", " ">>) THEN NoOffer
        ELSE IF ~well_formed THEN NoOffer
        ELSE IF Len(rest) < 3 THEN NoOffer
        ELSE IF ~(ip_long.ok /\ port.ok /\ filesize.ok) THEN NoOffer
        ELSE IF ~ip.ok THEN NoOffer
        ELSE [ok |-> TRUE,
              filename |-> filename,
              filepath |-> _get_unique_filepath(
                               path_join(DownloadDir, _sanitize_filename(filename)), existing),
              filesize |-> int_value(filesize),
              direction |-> "receive",
              ip |-> ip.ip,
              port |-> int_value(port),
              state |-> "pending"]

\* the control messages: keyword, filename, address, port and size forms
KeywordForms == {<<"D", "C", "C", " ", "S", "E", "N", "D", " ">>,
                <<"d", "c", "c", " ", "s", "e", "n", "d", " ">>,
                <<"D", "c", "c", " ", "S", "e", "n", "d", " ">>,
                <<"D", "C", "C", " ", "S", "E", "N", "T", " ">>,
                <<"D", "C", "C", " ", "S", "E", "N", "D">>}
FilenameForms == {<<"\"", "m", "y", " ", "f", "i", "l", "e", ".", "t", "x", "t", "\"">>,
                 <<"f", ".", "t">>,
                 <<"\"", "m", "y", " ", "f", "i", "l", "e", ".", "t", "x", "t">>,
                 <<"\"", ".", ".", "/", "f", "\"">>,
                 <<".">>}
AddressForms == {<<"3", "2", "3", "2", "2", "3", "5", "7", "7", "7">>,
                <<"0">>,
                <<"4", "2", "9", "4", "9", "6", "7", "2", "9", "5">>,
                <<"4", "2", "9", "4", "9", "6", "7", "2", "9", "6">>,
                <<"-", "1">>,
                <<"2", "1", "3", "0", "7", "0", "6", "4", "3", "3">>,
                <<"x">>,
                <<"1", "6", "7", "7", "7", "3", "4", "3">>}
PortForms == {<<"5", "0", "0", "0">>,
             <<"0">>}
SizeForms == {<<"1", "2", "3", "4", "5">>,
             <<>>,
             <<"1", "x">>}
\* the download directory exists
OfferFileSystems == {{DownloadDir}, {DownloadDir, <<"/", "d", "/", "m", "y", " ", "f", "i", "l", "e", ".", "t", "x", "t">>}}

offer_message(keyword, name, address, port, size) ==
    keyword \o name \o <<" ">> \o address \o <<" ">> \o port \o <<" ">> \o size

\* parse_dcc_ctcp on a control message: the transfer is given the next id and
\* registered, or None is returned
parse_call(keyword, name, address, port, size, existing) ==
    LET text == offer_message(keyword, name, address, port, size)
        offer == parse_offer(text, existing)
    IN  /\ pure_call = "none"
        /\ pure_call' = "parse_dcc_ctcp"
        /\ pure_arg' = [message |-> text, name |-> name, address |-> address,
                        existing |-> existing]
        /\ IF offer.ok
           THEN /\ pure_result' = [offer EXCEPT !.ok = TRUE] @@ [id |-> next_id]
                /\ next_id' = next_id + 1
                /\ transfers' = transfers \cup {next_id}
           ELSE /\ pure_result' = NoOffer
                /\ UNCHANGED <<next_id, transfers>>
        /\ UNCHANGED <<listen_sockets, dccrest, rostervars, sessvars, splitvars, regvars,
                       readvars, lockvars, annvars, downloadvars>>

OfferNext ==
    \/ \E keyword \in KeywordForms, name \in FilenameForms, address \in AddressForms,
          port \in PortForms, size \in SizeForms, existing \in OfferFileSystems :
           parse_call(keyword, name, address, port, size, existing)
    \/ \E filename \in DeclaredNames : sanitize_call(filename)
    \/ \E filepath \in FilePaths, existing \in AllFileSystems : unique_call(filepath, existing)

OfferSpec == Init /\ [][OfferNext]_vars

\* the value of a decimal numeral as <<n \div 2^16, n % 2^16>>, accumulated
\* digit by digit from the left (for numerals below 2^32)
RECURSIVE halves_from(_, _, _)
halves_from(digits, high, low) ==
    IF digits = <<>> THEN <<high, low>>
    ELSE LET l == low * 10 + DigitValue[Head(digits)]
         IN  halves_from(Tail(digits), high * 10 + (l \div 65536), l % 65536)
halves(digits) == halves_from(digits, 0, 0)

\* ------------------------- screen reader announcements of the application
\* AccessIRCWindow's announcement settings and the join / part handlers of
\* AccessIRCApplication. Python's None is "None"; the mode "none" is a mode.
\* A (server, target) pair is <<server, target>>, and <<>> where the caller
\* passes no server and target.
AnnServers == {"MyServer"}
AnnChannels == {"#python", "#rust"}
AnnNicks == {"alice", "TestUser"}

\* Dict.get(key)
override_of(key) ==
    IF key \in DOMAIN channel_announcement_overrides
    THEN IF channel_announcement_overrides[key] THEN "True" ELSE "False"
    ELSE "None"

\* AccessIRCWindow.should_announce_all_messages(server, target)
should_announce_all_messages(key) ==
    IF key # <<>> /\ override_of(key) # "None" THEN override_of(key) = "True"
    ELSE IF temp_announcement_mode # "None" THEN temp_announcement_mode = "all"
    ELSE ui_config.announce_all_messages

\* the tree selection moves to a server buffer or to a channel
on_tree_selection_changed(server, target) ==
    /\ current_target' = <<server, target>>
    /\ UNCHANGED <<channel_announcement_overrides, temp_announcement_mode, ui_config,
                   announced, dccvars, rostervars, sessvars, splitvars, regvars, readvars,
                   lockvars, purevars>>

\* Ctrl+S: all -> mentions -> none -> all, starting from the configuration
toggle_announcement_mode ==
    LET current_mode ==
            IF temp_announcement_mode = "None"
            THEN IF ui_config.announce_all_messages THEN "all"
                 ELSE IF ui_config.announce_mentions_only THEN "mentions" ELSE "none"
            ELSE temp_announcement_mode
    IN  /\ temp_announcement_mode' = CASE current_mode = "all" -> "mentions"
                                       [] current_mode = "mentions" -> "none"
                                       [] OTHER -> "all"
        /\ announced' = [op |-> "toggle_announcement_mode", server |-> "", channel |-> "",
                         said |-> TRUE]
        /\ UNCHANGED <<channel_announcement_overrides, ui_config, current_target, dccvars,
                       rostervars, sessvars, splitvars, regvars, readvars, lockvars,
                       purevars>>

\* F2: unset -> enabled -> disabled -> unset for the current channel
toggle_channel_announcement_mode ==
    /\ IF current_target = <<>> \/ current_target[2] = current_target[1]
       THEN UNCHANGED channel_announcement_overrides
       ELSE channel_announcement_overrides' =
                CASE override_of(current_target) = "None" ->
                         [key \in DOMAIN channel_announcement_overrides \cup {current_target} |->
                             IF key = current_target THEN TRUE
                             ELSE channel_announcement_overrides[key]]
                  [] override_of(current_target) = "True" ->
                         [channel_announcement_overrides EXCEPT ![current_target] = FALSE]
                  [] OTHER ->
                         [key \in DOMAIN channel_announcement_overrides \ {current_target} |->
                             channel_announcement_overrides[key]]
    /\ announced' = [op |-> "toggle_channel_announcement_mode", server |-> "", channel |-> "",
                     said |-> TRUE]
    /\ UNCHANGED <<temp_announcement_mode, ui_config, current_target, dccvars, rostervars,
                   sessvars, splitvars, regvars, readvars, lockvars, purevars>>

\* on_irc_join: of the handler, the announcement (the system message, the
\* tree, the log, the plugins and the sound do not depend on the settings)
on_irc_join(server, channel, nick) ==
    /\ announced' = [op |-> "on_irc_join", server |-> server, channel |-> channel,
                     said |-> should_announce_all_messages(<<>>)]
    /\ UNCHANGED <<channel_announcement_overrides, temp_announcement_mode, ui_config,
                   current_target, dccvars, rostervars, sessvars, splitvars, regvars,
                   readvars, lockvars, purevars>>

\* on_irc_part: the same
on_irc_part(server, channel, nick) ==
    /\ announced' = [op |-> "on_irc_part", server |-> server, channel |-> channel,
                     said |-> should_announce_all_messages(<<>>)]
    /\ UNCHANGED <<channel_announcement_overrides, temp_announcement_mode, ui_config,
                   current_target, dccvars, rostervars, sessvars, splitvars, regvars,
                   readvars, lockvars, purevars>>

\* the window of an application started with any announcement configuration
AnnounceInit ==
    /\ DccInit
    /\ IrcInit
    /\ RegInit /\ ReadInit /\ LockInit /\ PureInit
    /\ channel_announcement_overrides = [key \in {} |-> FALSE]
    /\ temp_announcement_mode = "None"
    /\ ui_config \in [announce_all_messages : BOOLEAN, announce_mentions_only : BOOLEAN]
    /\ current_target = <<>>
    /\ announced = Silent

AnnounceNext ==
    \/ \E server \in AnnServers, target \in AnnChannels \cup AnnServers :
           on_tree_selection_changed(server, target)
    \/ toggle_announcement_mode
    \/ toggle_channel_announcement_mode
    \/ \E server \in AnnServers, channel \in AnnChannels, nick \in AnnNicks :
           on_irc_join(server, channel, nick)
    \/ \E server \in AnnServers, channel \in AnnChannels, nick \in AnnNicks :
           on_irc_part(server, channel, nick)

AnnounceSpec == AnnounceInit /\ [][AnnounceNext]_vars

\* ============================================ privilege changes on a roster
\* ModeSpec applies _update_user_prefix and _apply_mode_changes once to a
\* roster of one channel.

\* roster entries: bare, prefixed under each rank, and a multi-prefix entry
ModeEntries == {<<"a">>, <<"+", "a">>, <<"@", "a">>, <<"~", "a">>, <<"@", "+", "a">>,
                <<"m">>, <<"+", "m">>, <<"%", "m">>, <<"&", "m">>, <<"+", "c">>}
MaxRoster == 3
ModeRosters == {users \in SUBSET ModeEntries : Cardinality(users) <= MaxRoster}
ModeNicks == {<<"a">>, <<"m">>}
\* mode strings with privilege, list-type, value-type and parameterless letters
ModeDeltas == {<<"+", "o", "v">>, <<"-", "v">>, <<"+", "k", "o">>, <<"-", "k", "o">>,
               <<"+", "b", "v">>, <<"-", "b", "v">>, <<"+", "o", "-", "v">>,
               <<"+", "n", "h">>, <<"-", "l", "q", "+", "l", "a">>, <<"o">>}
MaxParams == 3
ModeParams == UNION {[1..n -> ModeNicks] : n \in 0..MaxParams}

update_prefix_call(users, nick, mode, sign) ==
    /\ pure_call = "none"
    /\ pure_call' = "_update_user_prefix"
    /\ pure_arg' = [users |-> users, nickname |-> nick, mode |-> mode, sign |-> sign]
    /\ \E updated \in _update_user_prefix(users, nick, mode, sign) :
           pure_result' = [users |-> updated]
    /\ UNCHANGED <<dccvars, rostervars, sessvars, splitvars, regvars, readvars, lockvars,
                   annvars, downloadvars>>

apply_mode_call(users, mode_str, params) ==
    /\ pure_call = "none"
    /\ pure_call' = "_apply_mode_changes"
    /\ pure_arg' = [users |-> users, mode_str |-> mode_str, params |-> params]
    /\ \E updated \in _apply_mode_changes(users, mode_str, params) :
           pure_result' = [users |-> updated]
    /\ UNCHANGED <<dccvars, rostervars, sessvars, splitvars, regvars, readvars, lockvars,
                   annvars, downloadvars>>

ModeNext ==
    \/ /\ pure_call = "none"
       /\ \E users \in ModeRosters, nick \in ModeNicks,
             mode \in DOMAIN USER_MODE_PREFIXES, sign \in {"+", "-"} :
              update_prefix_call(users, nick, mode, sign)
    \/ /\ pure_call = "none"
       /\ \E users \in ModeRosters, mode_str \in ModeDeltas, params \in ModeParams :
              apply_mode_call(users, mode_str, params)

ModeSpec == Init /\ [][ModeNext]_vars

\* ================================================= progress of a receive loop
\* ProgressSpec follows the loop of _receive_file_thread with the real block
\* size: each iteration asks for chunk_size bytes, sock.recv returns between 1
\* and chunk_size of them, and the progress callback is queued when due.

\* file sizes of more than ProgressEvery blocks
ProgressFileSizes == {DCC_BLOCK_SIZE * (ProgressEvery + 1), DCC_BLOCK_SIZE * (ProgressEvery + 2)}
\* lengths sock.recv returns: a full block, one byte short of it, one byte
RecvLengths == {DCC_BLOCK_SIZE, DCC_BLOCK_SIZE - 1, 1}
MaxBlocks == 13

receive_loop_enter(filesize) ==
    /\ pure_call = "none"
    /\ pure_call' = "_receive_file_thread"
    /\ pure_arg' = [filesize |-> filesize]
    /\ pure_result' = [bytes_transferred |-> 0, blocks |-> 0, progress |-> 0]
    /\ UNCHANGED <<dccvars, rostervars, sessvars, splitvars, regvars, readvars, lockvars,
                   annvars, downloadvars>>

\* one iteration: recv returns n bytes, they are written and counted, the
\* acknowledgement is sent and the progress callback queued when due
receive_loop_block(n) ==
    /\ pure_call = "_receive_file_thread"
    /\ pure_result.blocks < MaxBlocks
    /\ pure_result.bytes_transferred < pure_arg.filesize
    /\ n <= chunk_size([filesize |-> pure_arg.filesize,
                        bytes_transferred |-> pure_result.bytes_transferred])
    /\ pure_result' =
           [bytes_transferred |-> pure_result.bytes_transferred + n,
            blocks |-> pure_result.blocks + 1,
            progress |-> IF progress_due(pure_result.bytes_transferred + n)
                         THEN pure_result.progress + 1 ELSE pure_result.progress]
    /\ UNCHANGED <<pure_call, pure_arg, dccvars, rostervars, sessvars, splitvars, regvars,
                   readvars, lockvars, annvars, downloadvars>>

ProgressNext ==
    \/ \E filesize \in ProgressFileSizes : receive_loop_enter(filesize)
    \/ \E n \in RecvLengths : receive_loop_block(n)

ProgressSpec == Init /\ [][ProgressNext]_vars

\* ================================================= offers and their files
\* DownloadSpec follows the receive transfers from parse_dcc_ctcp to their end
\* together with the files they create: the destination of an offer is
\* resolved against the files that exist when it is parsed.
MaxDownloads == 2
DownloadNames == {<<"f", ".", "t">>, <<"g">>}
downloadframe == <<dccvars, rostervars, sessvars, splitvars, regvars, readvars, lockvars,
                   annvars, pure_call, pure_arg, pure_result>>

\* parse_dcc_ctcp on a well-formed offer of name: the transfer is registered
download_parse(name) ==
    LET text == offer_message(<<"D", "C", "C", " ", "S", "E", "N", "D", " ">>, name,
                              <<"3", "2", "3", "2", "2", "3", "5", "7", "7", "7">>,
                              <<"5", "0", "0", "0">>, <<"1", "2", "3", "4", "5">>)
        offer == parse_offer(text, disk)
    IN  /\ Len(downloads) < MaxDownloads
        /\ offer.ok
        /\ downloads' = Append(downloads, [filepath |-> offer.filepath, state |-> offer.state,
                                           registered |-> TRUE])
        /\ UNCHANGED <<disk, downloadframe>>

download_accept(k) ==
    /\ downloads[k].registered
    /\ downloads[k].state = "pending"
    /\ downloads' = [downloads EXCEPT ![k].state = "connecting"]
    /\ UNCHANGED <<disk, downloadframe>>

download_reject(k) ==
    /\ downloads[k].registered
    /\ downloads[k].state = "pending"
    /\ downloads' = [downloads EXCEPT ![k].state = "cancelled", ![k].registered = FALSE]
    /\ UNCHANGED <<disk, downloadframe>>

\* the receive thread connects and opens its file for writing
download_open(k) ==
    /\ downloads[k].state = "connecting"
    /\ downloads' = [downloads EXCEPT ![k].state = "transferring"]
    /\ disk' = disk \cup {downloads[k].filepath}
    /\ UNCHANGED downloadframe

\* connecting raised
download_connect_failed(k) ==
    /\ downloads[k].state = "connecting"
    /\ downloads' = [downloads EXCEPT ![k].state = "failed"]
    /\ UNCHANGED <<disk, downloadframe>>

\* the loop ends: a cancelled transfer removes its partial file
download_end(k, outcome) ==
    /\ downloads[k].state = "transferring"
    /\ downloads' = [downloads EXCEPT ![k].state = outcome]
    /\ disk' = IF outcome = "cancelled" THEN disk \ {downloads[k].filepath} ELSE disk
    /\ UNCHANGED downloadframe

DownloadNext ==
    \/ \E name \in DownloadNames : download_parse(name)
    \/ \E k \in DOMAIN downloads : download_accept(k)
    \/ \E k \in DOMAIN downloads : download_reject(k)
    \/ \E k \in DOMAIN downloads : download_open(k)
    \/ \E k \in DOMAIN downloads : download_connect_failed(k)
    \/ \E k \in DOMAIN downloads, outcome \in Terminal : download_end(k, outcome)

DownloadSpec == Init /\ [][DownloadNext]_vars

\* ================================================================== claims

IsTerminal(id) == transfer[id].state \in Terminal

\* C1: once a transfer's state is completed, failed or cancelled, no step
\* changes it.
C1_TerminalIsFinal ==
    [][\A id \in Ids :
          IsTerminal(id) => transfer'[id].state = transfer[id].state]_vars

\* C2: cancel_transfer succeeds exactly for a registered transfer in a
\* non-terminal state, then sets the cancellation flag, closes the owned
\* socket and marks the transfer cancelled; otherwise it returns failure and
\* changes nothing.
C2_CancelContract ==
    [][\A id \in Ids \cup {NoSuchId} :
          cancel_transfer(id) =>
              IF id \in transfers /\ transfer[id].state \in NonTerminal
              THEN /\ ret'
                   /\ transfer'[id].cancelled
                   /\ transfer'[id].state = "cancelled"
                   /\ transfer[id].sock = "sock" => rsock'[id] = "closed"
                   /\ transfer[id].sock = "conn" => conn'[id] = "closed"
              ELSE /\ ~ret'
                   /\ UNCHANGED <<transfer, transfers, rsock, conn>>]_vars

\* C3: a receive transfer cancelled while transferring, its thread anywhere
\* in the read / write / acknowledge loop, ends, once the thread has finished,
\* in state cancelled with the partial file deleted.
C3_CancelActiveDeletes ==
    \A id \in cancel_active :
        rpc[id] = "done" => transfer[id].state = "cancelled" /\ file[id] # "written"

\* C4: a transfer never owns more than one thread (counting an
\* accept_transfer call that is past the lock and about to start its thread).
C4_OneThread == \A id \in Ids : nthreads[id] + acc[id] <= 1

\* C5: reject_transfer succeeds exactly for a registered pending transfer,
\* which it marks cancelled and removes from the registry; afterwards accept,
\* reject and cancel for that id fail, the id stays unregistered and no thread
\* is started for it; accept_transfer succeeds exactly for a registered pending
\* transfer, so of a racing accept and reject the first succeeds and the
\* other fails, and no transfer is both rejected and accepted.
C5_RejectContract ==
    [][\A id \in Ids \cup {NoSuchId} :
          /\ reject_transfer(id) =>
                 IF id \in transfers /\ transfer[id].state = "pending"
                 THEN /\ ret'
                      /\ transfer'[id].state = "cancelled"
                      /\ id \notin transfers'
                 ELSE /\ ~ret'
                      /\ UNCHANGED <<transfer, transfers>>
          /\ accept_transfer(id) =>
                 (ret' <=> id \in transfers /\ transfer[id].state = "pending")
          /\ id \in rejected =>
                 /\ accept_transfer(id) \/ reject_transfer(id) \/ cancel_transfer(id)
                        => ~ret'
                 /\ id \notin transfers'
                 /\ nthreads'[id] = nthreads[id]
                 /\ acc'[id] = 0
                 /\ rpc'[id] = "none"]_vars

C5_Witness ==
    \E id \in rejected :
        /\ id \notin transfers
        /\ transfer[id].direction = "receive"
        /\ transfer[id].state = "cancelled"
        /\ nthreads[id] = 0
        /\ ~ret

\* C6: when the receive loop has exited without cancellation, the transfer
\* becomes completed, with a transfer-complete event, exactly when the bytes
\* received equal the declared size; otherwise it becomes failed with the
\* cause "Transfer incomplete" and a transfer-failed event.
C6_ReceiveOutcome ==
    [][\A id \in Ids :
          receive_final(id) /\ ~transfer[id].cancelled =>
              IF transfer[id].bytes_transferred = transfer[id].filesize
              THEN /\ transfer'[id].state = "completed"
                   /\ events'[id].complete = events[id].complete + 1
              ELSE /\ transfer'[id].state = "failed"
                   /\ transfer'[id].error_message = "Transfer incomplete"
                   /\ events'[id].failed = events[id].failed + 1]_vars

\* C7: a transfer in a terminal state holds no socket and no thread
\* reference, and its sockets are closed.
C7_TerminalReleased ==
    \A id \in Ids :
        IsTerminal(id) =>
            /\ transfer[id].sock = "null"
            /\ ~transfer[id].thread
            /\ rsock[id] \in {"none", "closed"}
            /\ conn[id] \in {"none", "closed"}

\* C8: every transfer for which a thread was started (an accepted receive,
\* an initiated send) eventually reaches a terminal state.
C8_EventuallyTerminal ==
    \A id \in Ids : (nthreads[id] > 0) ~> IsTerminal(id)

\* C9: until a transfer is in a terminal state, no step decreases its
\* bytes_transferred.
C9_BytesMonotone ==
    [][\A id \in Ids :
          ~IsTerminal(id) =>
              transfer'[id].bytes_transferred >= transfer[id].bytes_transferred]_vars

\* C10: in every channel, no two roster entries have the same bare nickname.
C10_UniqueBare ==
    \A c \in DOMAIN channel_users :
        \A e1, e2 \in channel_users[c] :
            _strip_prefix(e1) = _strip_prefix(e2) => e1 = e2

\* C11: the affected-channel list a quit reports is exactly the set of channels
\* whose roster held the quitting identity under any privilege prefix before
\* the quit, and afterwards no roster holds that identity.
C11_QuitAffected ==
    [][\A nick \in Nicks : on_quit(nick) =>
          /\ raised'.affected =
                 {channel \in DOMAIN channel_users :
                     _find_user_entry(channel_users[channel], nick) # {}}
          /\ \A channel \in DOMAIN channel_users' :
                 _find_user_entry(channel_users'[channel], nick) = {}]_vars

\* C12: for every inbound join, part, kick, quit, nick-change, names and
\* end-of-names event, the membership and roster updates are complete when the
\* event is raised: the state at the moment the callback is queued is the
\* state the handler leaves.
C12_UpdateBeforeEvent ==
    raised # NoEvent => raised.seen = <<current_channels, channel_users>>

C12_Witness ==
    /\ raised # NoEvent
    /\ raised.seen = <<current_channels, channel_users>>
    /\ current_channels # <<>>
    /\ \E channel \in DOMAIN channel_users : channel_users[channel] # {}

C14_NoRetryWhenRegistered ==
    [][\A code \in NickErrorCodes, quote_ok \in BOOLEAN :
          (_handle_nick_error(code, quote_ok) /\ connected) =>
          UNCHANGED <<nickname, _alternate_nick_index, quoted>>]_vars

\* a rejection handled while registered, with an untried alternate configured
C14_Witness ==
    /\ connected
    /\ _alternate_nick_index < Len(alternate_nicks)
    /\ notified = <<Notice("on_server_message", <<"Use /nick">>)>>

\* C15: at most one channel-list collection is in flight per session, also
\* when two requests are issued concurrently: a LIST request is sent only when
\* every earlier one has been answered by end-of-list.
C15_OneListInFlight == list_pending <= 1

C20_DisconnectContract ==
    [][/\ \A outcome \in DisconnectOutcomes :
             (disconnect_server(ServerName, outcome) /\ ServerName \in connections) =>
                /\ irc' = "closed"
                /\ ~connected'
                /\ ServerName \notin connections'
                /\ notified' = <<Notice("on_disconnect", <<>>)>>
       /\ \A server_name \in Labels, channel \in ListChannels :
             (join_channel(server_name, channel) /\ server_name \notin connections) =>
                quoted' = quoted]_vars

\* C16: for every message and every positive max_length, each chunk of
\* _split_message is text decoded from whole characters (no boundary inside a
\* multi-byte code point) and has a UTF-8 byte length of at most max_length.
C16_ChunkWithinLimit ==
    max_length > 0 =>
        \A i \in 1..Len(chunks) :
            /\ chunks[i] # DecodeError
            /\ \A k \in 1..Len(chunks[i]) : chunks[i][k] \in Chars
            /\ utf8_len(chunks[i]) <= max_length

\* a split that backed up from the middle of a multi-byte character
C16_Witness ==
    /\ split_pc = "returned"
    /\ max_length > 0
    /\ Len(chunks) >= 2
    /\ utf8_len(chunks[1]) < max_length
    /\ utf8_width(message[Len(chunks[1]) + 1]) > 1

\* the texts chunks from position i on can come from when at most max_drop
\* spaces are dropped after each chunk: text starts with chunks[i], then up
\* to max_drop spaces, then the rest matches the chunks after i
RECURSIVE Rejoins(_, _, _, _)
Rejoins(text, parts, i, max_drop) ==
    IF i > Len(parts) THEN text = <<>>
    ELSE LET n == Len(parts[i])
         IN  /\ Len(text) >= n
             /\ SubSeq(text, 1, n) = parts[i]
             /\ \E d \in 0..Min(max_drop, Len(text) - n) :
                    /\ \A k \in (n + 1)..(n + d) : text[k] = " "
                    /\ Rejoins(SubSeq(text, n + d + 1, Len(text)), parts, i + 1, max_drop)

Finished == split_pc \in {"returned", "sending", "sent"} /\ call_kind # "none"

\* C17 as stated: the chunks of a finished split joined again give the
\* message, except that after each chunk at most one space is missing.
C17_SingleSpaceDropped ==
    (Finished /\ chunks # <<>>) => Rejoins(message, chunks, 1, 1)

\* C17, amended: the chunks of a finished split joined again give the message,
\* except that after each chunk a run of spaces is missing; no other
\* character is lost, added or reordered.
C17_SpaceRunDropped ==
    (Finished /\ chunks # <<>>) => Rejoins(message, chunks, 1, Len(message))

\* a finished split that dropped two spaces at one boundary
C17_Witness ==
    /\ split_pc = "returned"
    /\ Len(chunks) = 2
    /\ Len(chunks[1]) + Len(chunks[2]) + 2 = Len(message)
    /\ Rejoins(message, chunks, 1, Len(message))

\* C18: each line send_message or send_action transmits, together with the
\* allowance for the sender prefix, is at most IRC_MAX_LINE bytes.
C18_LineWithinBudget ==
    \A i \in 1..Len(sent) : sent[i] + IRC_HOSTMASK_BUFFER <= IRC_MAX_LINE

\* C21: under concurrent connect_server and disconnect_server calls, every
\* session whose connect succeeded, once its connect_server call has returned
\* and unless it was handed to disconnect, is the registry's entry for its
\* label: no racing connect for the same label overwrote it, no racing
\* disconnect removed it.
C21_ConnectedReachable ==
    \A c \in 1..Len(objects) :
        (/\ objects[c] = "connected"
         /\ \A t \in Callers : ~(mpc[t] = "store" /\ mlocal[t].connection = c))
        => \E label \in DOMAIN registered : registered[label] = c

\* C22: a roster snapshot taken by another thread while a handler is being
\* dispatched equals the channel's roster before that event or after the
\* whole event, never a state in between.
C22_SnapshotWholeEvent == snapshot.during => snapshot.whole

\* C23: every access to transfers or _listen_sockets is made by a thread
\* that holds _transfer_lock, and no thread holds the lock inside a blocking
\* accept or send.
C23_RegistryUnderLock ==
    /\ access.locked
    /\ \A t \in DccThreads : Blocking(t) => transfer_lock # t

\* C24: no two DCCTransfer objects of one manager were given the same id,
\* also after cleanup emptied the registry and when the creating calls
\* interleave.
C24_UniqueIds ==
    \A i \in 1..Len(given), j \in 1..Len(given) : i # j => given[i] # given[j]

\* C26: the sanitized form of every declared filename is non-empty, at most
\* 200 characters long, and holds no null byte, no path separator and no
\* two consecutive dots.
C26_SanitizedSafe ==
    pure_call = "_sanitize_filename" =>
        LET safe == pure_result.filename
        IN  /\ safe # <<>>
            /\ Len(safe) <= 200
            /\ \A i \in DOMAIN safe : safe[i] \notin {"NUL", "/", "\\"}
            /\ \A i \in 1..(Len(safe) - 1) : ~(safe[i] = "." /\ safe[i + 1] = ".")

\* the name made of a parent-directory sequence and a null byte was sanitized
C26_Witness ==
    /\ pure_call = "_sanitize_filename"
    /\ pure_arg.filename = <<".", ".", "/", "NUL">>
    /\ pure_result.filename = <<"_", "_">>

\* C27: a destination path that does not exist is used unchanged; one that
\* exists is resolved to base_N.ext for the smallest N >= 1 such that this
\* path does not exist; the resolved path never names an existing file.
C27_CollisionFree ==
    pure_call = "_get_unique_filepath" =>
        LET filepath == pure_arg.filepath
            existing == pure_arg.existing
            resolved == pure_result.filepath
        IN  /\ resolved \notin existing
            /\ filepath \notin existing => resolved = filepath
            /\ filepath \in existing =>
                   \E n \in 1..(Cardinality(existing) + 1) :
                       /\ resolved = suffixed(filepath, n)
                       /\ \A k \in 1..(n - 1) : suffixed(filepath, k) \in existing

\* f.t, f_1.t and f_2.t exist and the call resolved /d/f.t to /d/f_3.t
C27_Witness ==
    /\ pure_call = "_get_unique_filepath"
    /\ pure_arg.filepath = <<"/", "d", "/", "f", ".", "t">>
    /\ pure_arg.existing = {<<"/", "d", "/", "f", ".", "t">>, <<"/", "d", "/", "f", "_", "1", ".", "t">>, <<"/", "d", "/", "f", "_", "2", ".", "t">>}
    /\ pure_result.filepath = <<"/", "d", "/", "f", "_", "3", ".", "t">>

\* C25: the control message DCC SEND "my file.txt" 3232235777 5000 12345,
\* its keyword in any letter case, parses to a transfer registered in state
\* pending with filename my file.txt, address 192.168.1.1, port 5000 and size
\* 12345; the address of every parsed offer is the decimal integer read as four
\* big-endian bytes, and a quoted filename keeps its spaces.
C25_OfferParsed ==
    pure_call = "parse_dcc_ctcp" =>
        /\ (\E keyword \in {<<"D", "C", "C", " ", "S", "E", "N", "D", " ">>, <<"d", "c", "c", " ", "s", "e", "n", "d", " ">>, <<"D", "c", "c", " ", "S", "e", "n", "d", " ">>} :
               pure_arg.message = keyword \o <<"\"", "m", "y", " ", "f", "i", "l", "e", ".", "t", "x", "t", "\"", " ", "3", "2", "3", "2", "2", "3", "5", "7", "7", "7", " ", "5", "0", "0", "0", " ", "1", "2", "3", "4", "5">>)
           => /\ pure_result.ok
              /\ pure_result.filename = <<"m", "y", " ", "f", "i", "l", "e", ".", "t", "x", "t">>
              /\ pure_result.ip = <<"1", "9", "2", ".", "1", "6", "8", ".", "1", ".", "1">>
              /\ pure_result.port = 5000
              /\ pure_result.filesize = 12345
              /\ pure_result.state = "pending"
              /\ pure_result.id \in transfers
        /\ pure_result.ok =>
               LET high == halves(pure_arg.address)[1]
                   low == halves(pure_arg.address)[2]
               IN  pure_result.ip =
                       inet_ntoa(<<high \div 256, high % 256, low \div 256, low % 256>>)
        /\ (pure_result.ok /\ pure_arg.name = <<"\"", "m", "y", " ", "f", "i", "l", "e", ".", "t", "x", "t", "\"">>)
           => pure_result.filename = <<"m", "y", " ", "f", "i", "l", "e", ".", "t", "x", "t">>

\* the example message with a lower-case keyword was parsed
C25_Witness ==
    /\ pure_call = "parse_dcc_ctcp"
    /\ pure_arg.message = <<"d", "c", "c", " ", "s", "e", "n", "d", " ", "\"", "m", "y", " ", "f", "i", "l", "e", ".", "t", "x", "t", "\"", " ", "3", "2", "3", "2", "2", "3", "5", "7", "7", "7", " ", "5", "0", "0", "0", " ", "1", "2", "3", "4", "5">>
    /\ pure_result.ok
    /\ pure_result.ip = <<"1", "9", "2", ".", "1", "6", "8", ".", "1", ".", "1">>

\* C28: a join or part is announced exactly when announcing all messages is
\* enabled for the event's server and channel, the per-channel override
\* before the session toggle before the configuration.
C28_JoinPartAnnounced ==
    announced.op \in {"on_irc_join", "on_irc_part"} =>
        (announced.said <=> should_announce_all_messages(<<announced.server, announced.channel>>))

\* C30: after a nickname change, the notification goes to every channel
\* whose roster holds the renamed identity under any prefix and to no other
\* channel, the rosters being read once the rename is applied.
C30_NickNotified ==
    [][\A old_nick \in Nicks, new_nick \in Nicks :
           on_nick(old_nick, new_nick) =>
               on_irc_nick_channels(channel_users', new_nick) =
                   {channel \in DOMAIN channel_users' :
                       _find_user_entry(channel_users'[channel], new_nick) # {}}]_vars

\* C29: a nickname change old -> new leaves every roster without an entry of
\* old unchanged; in every roster with one, the entries of old are gone, the
\* other entries stay and new is added under the prefix an entry of old had;
\* the session's nickname becomes new exactly when old was the nickname.
C29_RenameKeepsPrefix ==
    [][\A old_nick \in Nicks, new_nick \in Nicks :
           on_nick(old_nick, new_nick) =>
               /\ DOMAIN channel_users' = DOMAIN channel_users
               /\ \A channel \in DOMAIN channel_users :
                      LET users == channel_users[channel]
                          olds == {entry \in users : _strip_prefix(entry) = old_nick}
                      IN IF olds = {}
                         THEN channel_users'[channel] = users
                         ELSE \E existing \in olds :
                                  channel_users'[channel] =
                                      (users \ olds)
                                          \cup {_get_prefix(existing) \o new_nick}
               /\ nickname' = IF old_nick = nickname THEN new_nick ELSE nickname]_vars

\* the session was renamed from m to a: one roster holds +a, an entry no
\* NAMES token spells, and another roster, which had no entry of m, holds @a
C29_Witness ==
    /\ nickname = <<"a">>
    /\ \E channel \in DOMAIN channel_users :
           /\ <<"+", "a">> \in channel_users[channel]
           /\ \E other \in DOMAIN channel_users \ {channel} :
                  channel_users[other] = {<<"@", "a">>}
    /\ \A channel \in DOMAIN channel_users :
           _find_user_entry(channel_users[channel], <<"m">>) = {}

\* the rank of a displayed prefix, none ranking lowest
RankOf(prefix) == IF prefix = <<>> THEN 0 ELSE PREFIX_RANK[prefix[1]]

\* C31: one privilege change on a roster entry: a grant leaves the identity
\* with an entry whose prefix is the higher ranked of the entry's prefix and
\* the granted one, never a lower one; a revoke leaves the bare identity when
\* the entry's prefix is the revoked one and the roster unchanged otherwise;
\* the bare identity and the entries of other identities stay as they were.
C31_PrivilegeChange ==
    pure_call = "_update_user_prefix" =>
        LET users == pure_arg.users
            base == pure_arg.nickname
            granted == <<USER_MODE_PREFIXES[pure_arg.mode]>>
            held == {entry \in users : _strip_prefix(entry) = base}
            now == {entry \in pure_result.users : _strip_prefix(entry) = base}
        IN  /\ pure_result.users \ now = users \ held
            /\ held # {} =>
                 \E entry \in held :
                    IF pure_arg.sign = "+"
                    THEN \E shown \in now :
                                /\ now = {shown} \/ pure_result.users = users
                                /\ RankOf(_get_prefix(shown)) >= RankOf(_get_prefix(entry))
                                /\ RankOf(_get_prefix(shown)) >= RankOf(granted)
                                /\ _get_prefix(shown) \in {_get_prefix(entry), granted}
                    ELSE IF _get_prefix(entry) = granted
                         THEN now = {base}
                         ELSE pure_result.users = users

\* -v on an entry holding @ leaves it; +o on an entry holding + raises it
C31_Witness ==
    /\ pure_call = "_update_user_prefix"
    /\ \/ /\ pure_arg = [users |-> {<<"@", "a">>, <<"+", "m">>}, nickname |-> <<"a">>,
                         mode |-> "v", sign |-> "-"]
          /\ pure_result.users = {<<"@", "a">>, <<"+", "m">>}
       \/ /\ pure_arg = [users |-> {<<"+", "a">>}, nickname |-> <<"a">>,
                         mode |-> "o", sign |-> "+"]
          /\ pure_result.users = {<<"@", "a">>}

\* the sign that governs position i of a mode string: the nearest sign to its
\* left, "+" when there is none
SignAt(mode_str, i) ==
    LET signs == {j \in 1..(i - 1) : mode_str[j] \in {"+", "-"}}
    IN  IF signs = {} THEN "+"
        ELSE mode_str[CHOOSE j \in signs : \A k \in signs : k <= j]

\* position i holds a letter that takes a parameter: a privilege or list-type
\* letter under either sign, a value-type letter under "+"
TakesParam(mode_str, i) ==
    \/ mode_str[i] \in {"q", "a", "o", "h", "v", "b", "e", "I"}
    \/ mode_str[i] \in {"k", "l", "f", "j"} /\ SignAt(mode_str, i) = "+"

\* the index of the parameter the letter at position i takes, counting from
\* the left
ParamAt(mode_str, i) ==
    1 + Cardinality({j \in 1..(i - 1) : TakesParam(mode_str, j)})

\* the privilege changes of a mode delta, each letter with its own parameter
PrivilegeChanges(mode_str, params) ==
    LET at == SelectSeq([i \in 1..Len(mode_str) |-> i],
                        LAMBDA i : /\ mode_str[i] \in {"q", "a", "o", "h", "v"}
                                   /\ ParamAt(mode_str, i) <= Len(params))
    IN  [k \in 1..Len(at) |->
            <<SignAt(mode_str, at[k]), mode_str[at[k]], params[ParamAt(mode_str, at[k])]>>]

\* the rosters left by applying the changes from position k on, one by one
RECURSIVE AppliedFrom(_, _, _)
AppliedFrom(users, changes, k) ==
    IF k > Len(changes) THEN {users}
    ELSE UNION {AppliedFrom(updated, changes, k + 1) :
                   updated \in _update_user_prefix(users, changes[k][3], changes[k][2],
                                                   changes[k][1])}

\* C32: within one mode delta the parameters are taken left to right, one per
\* privilege and list-type letter under either sign and one per value-type
\* letter under "+" only, and each privilege letter is applied to its own
\* parameter; +ov with parameters a, m on a roster holding bare a and m leaves
\* @a and +m, no bare a or m, and every other entry as it was.
C32_OwnParameter ==
    pure_call = "_apply_mode_changes" =>
        /\ pure_result.users \in
               AppliedFrom(pure_arg.users,
                           PrivilegeChanges(pure_arg.mode_str, pure_arg.params), 1)
        /\ ( /\ pure_arg.mode_str = <<"+", "o", "v">>
             /\ pure_arg.params = <<<<"a">>, <<"m">>>>
             /\ {entry \in pure_arg.users : _strip_prefix(entry) \in {<<"a">>, <<"m">>}}
                    = {<<"a">>, <<"m">>} )
           => pure_result.users =
                  (pure_arg.users \ {<<"a">>, <<"m">>}) \cup {<<"@", "a">>, <<"+", "m">>}

\* +ov with parameters a, m on the roster a, m, +c
C32_Witness ==
    /\ pure_call = "_apply_mode_changes"
    /\ pure_arg = [users |-> {<<"a">>, <<"m">>, <<"+", "c">>},
                   mode_str |-> <<"+", "o", "v">>, params |-> <<<<"a">>, <<"m">>>>]
    /\ pure_result.users = {<<"@", "a">>, <<"+", "m">>, <<"+", "c">>}

NoChannelTwice(cc) == \A i, j \in 1..Len(cc) : cc[i] = cc[j] => i = j

C35_CancelClosesListener ==
    [][\A id \in Ids :
           ( /\ cancel_transfer(id)
             /\ id \in transfers
             /\ transfer[id].direction = "send"
             /\ spc[id] = "accept"
             /\ lsock[id] = "open" )
           => lsock'[id] = "closed"]_vars

\* C36: initiate_send passes the offer to send_ctcp_callback only once the
\* listening socket is bound and listening, and starts the send thread only
\* once the offer is passed; when bind or listen fails the transfer is marked
\* failed, no offer is passed, no thread is started and no id is returned.
C36_ListenOfferThread ==
    [][\A id \in Ids :
           /\ initiate_send_offer(id) => lsock[id] # "none"
           /\ offered'[id] > 0 => lsock'[id] # "none"
           /\ initiate_send_start_thread(id) => offered[id] = 1
           /\ (transfer'[id].direction = "send" /\ spc'[id] # "none") => offered'[id] = 1
           /\ initiate_send_bind_failed(id) =>
                  /\ transfer'[id].state = "failed"
                  /\ lsock'[id] = "none"
           /\ ipc'[id] = "failed" =>
                  /\ offered'[id] = 0
                  /\ nthreads'[id] = 0
                  /\ spc'[id] = "none"
                  /\ id \notin Known']_vars

\* an initiate_send call has returned its id: one offer was passed and the
\* send thread is started
C36_Witness ==
    \E id \in Ids :
        /\ transfer[id].direction = "send"
        /\ ipc[id] = "returned"
        /\ offered[id] = 1
        /\ lsock[id] = "open"
        /\ spc[id] = "start"

\* C37: a transfer that has moved more than ProgressEvery blocks has raised
\* at least one progress event, whatever the lengths of the blocks.
C37_ProgressEveryTenBlocks ==
    (pure_call = "_receive_file_thread" /\ pure_result.blocks > ProgressEvery)
        => pure_result.progress >= 1

\* C38: _split_message terminates for every message and every max_length of
\* at least 1, and returns no empty chunk: an iteration of its loop that does
\* not return appends a non-empty chunk and leaves a shorter remaining text.
C38_SplitTerminates ==
    [][(split_iteration /\ max_length >= 1 /\ split_pc' = "loop")
           => /\ Len(remaining') < Len(remaining)
              /\ chunks'[Len(chunks')] # <<>>]_vars

\* C40: the destination path of every parsed offer is a file directly inside
\* the download directory: the directory, a separator and one name without a
\* separator that is neither "." nor "..".
C40_InsideDownloadDir ==
    (pure_call = "parse_dcc_ctcp" /\ pure_result.ok)
        => LET filepath == pure_result.filepath
               name == SubSeq(filepath, Len(DownloadDir) + 2, Len(filepath))
           IN  /\ startswith(filepath, DownloadDir \o <<"/">>)
               /\ name \notin {<<>>, <<".">>, <<".", ".">>}
               /\ \A i \in DOMAIN name : name[i] # "/"

\* C39: no two registered receive transfers that are not in a terminal state
\* have the same destination path.
C39_DistinctPaths ==
    \A i, j \in DOMAIN downloads :
        (/\ i # j
         /\ downloads[i].registered /\ downloads[j].registered
         /\ downloads[i].state \notin Terminal /\ downloads[j].state \notin Terminal)
            => downloads[i].filepath # downloads[j].filepath

====
